---- MODULE Spec2Model ----
(***************************************************************************)
(* Model of the artifact generation of relay-compiler                      *)
(* (build_project/generate_artifacts.rs), of the resolver extraction entry *)
(* point (custom_resolver_extract.rs) and of the TypeScript resolver       *)
(* extractor of relay-schema-generation (typescript.rs).                   *)
(***************************************************************************)
EXTENDS Integers, Sequences, FiniteSets, TLC

\* ------------------------------------------------------------------------
\* Option<T>: None is the empty sequence, Some(v) the one-element sequence.
\* ------------------------------------------------------------------------
None == <<>>

Some(v) == <<v>>

IsSome(o) == o # <<>>

Unwrap(o) == o[1]

RECURSIVE SeqToSet(_)
SeqToSet(s) == IF s = <<>> THEN {} ELSE {Head(s)} \cup SeqToSet(Tail(s))

RECURSIVE Concat(_)
Concat(ss) == IF ss = <<>> THEN <<>> ELSE Head(ss) \o Concat(Tail(ss))

\* All orderings of the finite set S as sequences without repetition.
RECURSIVE Orderings(_)
Orderings(S) ==
    IF S = {} THEN {<<>>}
    ELSE UNION {{<<x>> \o t : t \in Orderings(S \ {x})} : x \in S}

\* ------------------------------------------------------------------------
\* Bounds and value universes of the artifact generation
\* ------------------------------------------------------------------------
\* Operation names, fragment names, source files (SourceLocationKey).
OpNames == {"A", "B"}

FragNames == {"F", "G"}

Locs == {"f1", "f2"}

\* The order of SourceLocationKey (the BTreeMap of the mixed mode sorts by it).
LocRank(l) == IF l = "f1" THEN 1 ELSE 2

\* Longest parent_documents list of a SplitOperationMetadata.
MaxParents == 2

VARIABLES
    programs,        \* Programs: normalization, reader, typegen, operation_text, source
    source_hashes,   \* SourceHashes: the names that have a source hash
    language,        \* project_config.typegen_config.language
    grouped,         \* the map returned by group_operations
    artifacts,       \* the artifacts collected before the output mode match
    output,          \* the Vec<Artifact> generate_artifacts returns
    gen_pc           \* "start", "returned" or "panicked"; "idle" when not run

gen_vars == <<programs, source_hashes, language, grouped, artifacts, output, gen_pc>>

\* The state of custom_extract_resolver and of the extractor it drives.
VARIABLES
    custom_scalar_types,  \* the custom scalar configuration, as inverted
    files_to_process,     \* compiler_state.full_sources[project].pending, in order
    extractor,            \* the TSRelayResolverExtractor (its fields)
    processed,            \* the number of files the loop has handled
    errors,               \* the local `errors` of custom_extract_resolver
    cer_result,           \* None, or Some of what custom_extract_resolver returned
    last_call,            \* the last call made on the extractor, with its outcome
    cer_pc                \* "start", "loop", "returned" or "panicked"; "idle"

ext_vars == <<custom_scalar_types, files_to_process, extractor, processed, errors,
              cer_result, last_call, cer_pc>>

\* A call of return_type_to_type_annotation on its own.
VARIABLES
    translate_args,       \* custom_scalar_map, return_type, use_semantic_non_null
    translate_result      \* None, or Some of what the call returned

\* A call of unwrap_nullable_type and a call of ts_type_to_field_arguments,
\* each on its own.
VARIABLES
    unwrap_args,          \* None, or Some of the annotation
    unwrap_result,        \* None, or Some of what the call returned
    arguments_args,       \* None, or Some of the annotation of the second parameter
    arguments_result      \* None, or Some of what the call returned

tr_vars == <<translate_args, translate_result, unwrap_args, unwrap_result,
             arguments_args, arguments_result>>

vars == <<gen_vars, ext_vars, tr_vars>>

\* The generation is not run.
GeneratorIdle ==
    /\ programs = <<>>
    /\ source_hashes = {}
    /\ language = "TypeScript"
    /\ grouped = <<>>
    /\ artifacts = <<>>
    /\ output = <<>>
    /\ gen_pc = "idle"

\* The translator is not called on its own.
HelpersIdle ==
    /\ unwrap_args = <<>>
    /\ unwrap_result = <<>>
    /\ arguments_args = <<>>
    /\ arguments_result = <<>>

TranslatorIdle ==
    /\ translate_args = <<>>
    /\ translate_result = <<>>
    /\ HelpersIdle

\* The extraction is not run.
ExtractorIdle ==
    /\ custom_scalar_types = <<>>
    /\ files_to_process = <<>>
    /\ extractor = <<>>
    /\ processed = 0
    /\ errors = <<>>
    /\ cer_result = <<>>
    /\ last_call = <<>>
    /\ cer_pc = "idle"

\* ------------------------------------------------------------------------
\* Values of the IR
\* ------------------------------------------------------------------------
\* ArtifactSourceKey
ExecutableDefinition(name) == [k |-> "ExecutableDefinition", v |-> name]

ResolverHash(hash) == [k |-> "ResolverHash", v |-> hash]

\* The directives of a definition that generate_artifacts looks for:
\*   split          Option<SplitOperationMetadata>
\*   derived_from   Option<RefetchableDerivedFromMetadata> (the source name)
\*   client_edge    Option<ClientEdgeGeneratedQueryMetadataDirective>
\*   artifact_source Option<ArtifactSourceKeyData> (the resolver hash)
\*   updatable      the @updatable directive is present
NoDirectives ==
    [split |-> None, derived_from |-> None, client_edge |-> None,
     artifact_source |-> None, updatable |-> FALSE]

\* source_hashes.get(name): the hash of a name is a value built from the name.
HashGet(hashes, name) == IF name \in hashes THEN Some([hash_of |-> name]) ELSE None

\* programs.<program>.fragment(name): the first fragment with that name.
FragmentLookup(fragments, name) ==
    LET hits == SelectSeq(fragments, LAMBDA f : f.name = name)
    IN  IF hits = <<>> THEN None ELSE Some(hits[1])

\* project_config.path_for_artifact(source_file, definition_name)
path_for_artifact(source_file, name) == <<source_file, name>>

\* ------------------------------------------------------------------------
\* group_operations
\* ------------------------------------------------------------------------
MapInsert(m, k, v) == [x \in (DOMAIN m) \cup {k} |-> IF x = k THEN v ELSE m[x]]

OperationGroup_new ==
    [normalization |-> None, operation_text |-> None, reader |-> None, typegen |-> None]

\* The key under which group_operations files a definition.
GroupKey(operation) == operation.location

\* .map(|normalization_operation| (key, OperationGroup {..})).collect():
\* a later pair with the same key replaces the earlier one.
RECURSIVE CollectNormalization(_, _)
CollectNormalization(operations, m) ==
    IF operations = <<>> THEN m
    ELSE CollectNormalization(Tail(operations),
            MapInsert(m, GroupKey(Head(operations)),
                      [OperationGroup_new EXCEPT !.normalization = Some(Head(operations))]))

\* for operation in ...: entry(key).or_insert_with(OperationGroup::new).<slot> = Some(operation)
RECURSIVE SetSlot(_, _, _)
SetSlot(operations, slot, m) ==
    IF operations = <<>> THEN m
    ELSE LET operation == Head(operations)
             key == GroupKey(operation)
             group == IF key \in DOMAIN m THEN m[key] ELSE OperationGroup_new
         IN  SetSlot(Tail(operations), slot,
                     MapInsert(m, key, [group EXCEPT ![slot] = Some(operation)]))

group_operations(p) ==
    SetSlot(p.typegen.operations, "typegen",
      SetSlot(p.reader.operations, "reader",
        SetSlot(p.operation_text.operations, "operation_text",
          CollectNormalization(p.normalization.operations, <<>>))))

\* ------------------------------------------------------------------------
\* generate_artifacts.  A helper returns None where the code panics.
\* ------------------------------------------------------------------------
expect_reader(operations) == operations.reader

\* Mutant: falls back to the reader entry instead of panicking.
expect_typegen_or_reader(operations) ==
    IF IsSome(operations.typegen) THEN operations.typegen ELSE operations.reader

expect_typegen(operations) == operations.typegen

generate_normalization_artifact(artifact_source, operations, source_hash, source_file) ==
    LET normalization == Unwrap(operations.normalization)
    IN  IF ~IsSome(expect_reader(operations)) \/ ~IsSome(expect_typegen(operations))
        THEN None
        ELSE Some([artifact_source_keys |-> <<artifact_source>>,
                   path |-> path_for_artifact(source_file, normalization.name),
                   content |-> [kind |-> "Operation",
                                normalization_operation |-> normalization.name,
                                reader_operation |-> Unwrap(expect_reader(operations)).name,
                                typegen_operation |-> Unwrap(expect_typegen(operations)).name,
                                operation_text |->
                                    IF IsSome(operations.operation_text)
                                    THEN Some(Unwrap(operations.operation_text).name)
                                    ELSE None,
                                source_hash |-> source_hash],
                   source_file |-> normalization.location])

generate_updatable_query_artifact(artifact_source, operations, source_hash, source_file) ==
    LET reader == Unwrap(operations.reader)
    IN  IF ~IsSome(expect_reader(operations)) \/ ~IsSome(expect_typegen(operations))
        THEN None
        ELSE Some([artifact_source_keys |-> <<artifact_source>>,
                   path |-> path_for_artifact(source_file, reader.name),
                   content |-> [kind |-> "UpdatableQuery",
                                reader_operation |-> Unwrap(expect_reader(operations)).name,
                                typegen_operation |-> Unwrap(expect_typegen(operations)).name,
                                source_hash |-> source_hash],
                   source_file |-> reader.location])

generate_reader_artifact(p, reader_fragment, source_hash, artifact_source_keys) ==
    LET name == reader_fragment.name
        typegen_fragment == FragmentLookup(p.typegen.fragments, name)
    IN  IF ~IsSome(typegen_fragment) THEN None
        ELSE Some([artifact_source_keys |-> artifact_source_keys,
                   path |-> path_for_artifact(reader_fragment.location, name),
                   content |-> [kind |-> "Fragment",
                                reader_fragment |-> name,
                                typegen_fragment |-> Unwrap(typegen_fragment).name,
                                source_hash |-> source_hash],
                   source_file |-> reader_fragment.location])

\* Mutant: the resolver hash is added to the parent documents.
SplitArtifactSourceKeys_merged(normalization, metadata) ==
    (IF IsSome(normalization.directives.artifact_source)
     THEN <<ResolverHash(Unwrap(normalization.directives.artifact_source))>>
     ELSE <<>>)
    \o [i \in 1..Len(metadata.parent_documents) |->
           ExecutableDefinition(metadata.parent_documents[i])]

\* The attribution keys of a SplitOperation artifact (lines 76-83).
SplitArtifactSourceKeys(normalization, metadata) ==
    IF IsSome(normalization.directives.artifact_source)
    THEN <<ResolverHash(Unwrap(normalization.directives.artifact_source))>>
    ELSE [i \in 1..Len(metadata.parent_documents) |->
              ExecutableDefinition(metadata.parent_documents[i])]

\* The SplitOperation branch (lines 65-96): it cannot panic.
SplitOperationArtifact(normalization, metadata, hashes) ==
    LET source_file == metadata.location
        source_hash == IF IsSome(metadata.derived_from)
                       THEN HashGet(hashes, Unwrap(metadata.derived_from))
                       ELSE None
        typegen_operation == IF IsSome(metadata.raw_response_type_generation_mode)
                             THEN Some(normalization.name) ELSE None
        artifact_source_keys == SplitArtifactSourceKeys(normalization, metadata)
    IN  [artifact_source_keys |-> artifact_source_keys,
         path |-> path_for_artifact(source_file, normalization.name),
         content |-> [kind |-> "SplitOperation",
                      normalization_operation |-> normalization.name,
                      typegen_operation |-> typegen_operation,
                      no_optional_fields_in_raw_response_type |->
                          (metadata.raw_response_type_generation_mode = Some("AllFieldsRequired")),
                      source_hash |-> source_hash],
         source_file |-> source_file]

\* Mutant: every reader is taken for an updatable query.
IsUpdatable_always(reader) == TRUE

\* reader.directives.named(*UPDATABLE_DIRECTIVE).is_some() (lines 149-152)
IsUpdatable(reader) == reader.directives.updatable

\* Mutant: the client-edge directive is looked for before the derived-from
\* directive.
GroupArtifact_client_edge_first(p, hashes, operations) ==
    IF IsSome(operations.normalization) THEN
        LET normalization == Unwrap(operations.normalization)
            d == normalization.directives
        IN  IF IsSome(d.split) THEN
                Some(SplitOperationArtifact(normalization, Unwrap(d.split), hashes))
            ELSE IF IsSome(d.client_edge) THEN
                LET source_name == Unwrap(d.client_edge).source_name
                    source_file == Unwrap(d.client_edge).location
                    source_hash == HashGet(hashes, source_name)
                IN  IF ~IsSome(source_hash) THEN None
                    ELSE generate_normalization_artifact(
                             ExecutableDefinition(source_name), operations,
                             Unwrap(source_hash), source_file)
            ELSE IF IsSome(d.derived_from) THEN
                LET source_name == Unwrap(d.derived_from)
                    source_fragment == FragmentLookup(p.source.fragments, source_name)
                    source_hash == HashGet(hashes, source_name)
                IN  IF ~IsSome(source_fragment) \/ ~IsSome(source_hash) THEN None
                    ELSE generate_normalization_artifact(
                             ExecutableDefinition(source_name), operations,
                             Unwrap(source_hash), Unwrap(source_fragment).location)
            ELSE
                LET source_hash == HashGet(hashes, normalization.name)
                IN  IF ~IsSome(source_hash) THEN None
                    ELSE generate_normalization_artifact(
                             ExecutableDefinition(normalization.name), operations,
                             Unwrap(source_hash), normalization.location)
    ELSE IF IsSome(operations.reader) /\ IsUpdatable(Unwrap(operations.reader)) THEN
        LET reader == Unwrap(operations.reader)
            source_hash == HashGet(hashes, reader.name)
        IN  IF ~IsSome(source_hash) THEN None
            ELSE generate_updatable_query_artifact(
                     ExecutableDefinition(reader.name), operations,
                     Unwrap(source_hash), reader.location)
    ELSE None

\* The closure applied to every group (lines 62-168).
GroupArtifact(p, hashes, operations) ==
    IF IsSome(operations.normalization) THEN
        LET normalization == Unwrap(operations.normalization)
            d == normalization.directives
        IN  IF IsSome(d.split) THEN
                Some(SplitOperationArtifact(normalization, Unwrap(d.split), hashes))
            ELSE IF IsSome(d.derived_from) THEN
                LET source_name == Unwrap(d.derived_from)
                    source_fragment == FragmentLookup(p.source.fragments, source_name)
                    source_hash == HashGet(hashes, source_name)
                IN  IF ~IsSome(source_fragment) \/ ~IsSome(source_hash) THEN None
                    ELSE generate_normalization_artifact(
                             ExecutableDefinition(source_name), operations,
                             Unwrap(source_hash), Unwrap(source_fragment).location)
            ELSE IF IsSome(d.client_edge) THEN
                LET source_name == Unwrap(d.client_edge).source_name
                    source_file == Unwrap(d.client_edge).location
                    source_hash == HashGet(hashes, source_name)
                IN  IF ~IsSome(source_hash) THEN None
                    ELSE generate_normalization_artifact(
                             ExecutableDefinition(source_name), operations,
                             Unwrap(source_hash), source_file)
            ELSE
                LET source_hash == HashGet(hashes, normalization.name)
                IN  IF ~IsSome(source_hash) THEN None
                    ELSE generate_normalization_artifact(
                             ExecutableDefinition(normalization.name), operations,
                             Unwrap(source_hash), normalization.location)
    ELSE IF IsSome(operations.reader) /\ IsUpdatable(Unwrap(operations.reader)) THEN
        LET reader == Unwrap(operations.reader)
            source_hash == HashGet(hashes, reader.name)
        IN  IF ~IsSome(source_hash) THEN None
            ELSE generate_updatable_query_artifact(
                     ExecutableDefinition(reader.name), operations,
                     Unwrap(source_hash), reader.location)
    ELSE None

\* Mutant: the client-edge directive is not consulted.
FragmentSourceName_own(reader_fragment) == reader_fragment.name

\* The source name of a reader fragment (lines 170-176).
FragmentSourceName(reader_fragment) ==
    IF IsSome(reader_fragment.directives.client_edge)
    THEN Unwrap(reader_fragment.directives.client_edge).source_name
    ELSE reader_fragment.name

\* The closure applied to every fragment of the reader program (lines 169-203).
FragmentArtifact(p, hashes, reader_fragment) ==
    LET d == reader_fragment.directives
        source_name == FragmentSourceName(reader_fragment)
        source_hash == HashGet(hashes, source_name)
        artifact_source_keys ==
            IF IsSome(d.artifact_source)
            THEN <<ResolverHash(Unwrap(d.artifact_source))>>
            ELSE <<ExecutableDefinition(source_name)>>
    IN  generate_reader_artifact(p, reader_fragment, source_hash, artifact_source_keys)

\* The keys of a BTreeMap<SourceLocationKey, _> in iteration order.
SortedLocs(S) ==
    CHOOSE s \in Orderings(S) :
        \A i, j \in 1..Len(s) : i < j => LocRank(s[i]) < LocRank(s[j])

\* Mutant: the keys of the last artifact of a file replace the collected keys.
MergeBySourceFile_lastkeys(arts) ==
    LET files == SortedLocs({arts[i].source_file : i \in DOMAIN arts})
        of(f) == SelectSeq(arts, LAMBDA a : a.source_file = f)
        merged(f) ==
            LET g == of(f)
            IN  [artifact_source_keys |-> g[Len(g)].artifact_source_keys,
                 path |-> g[Len(g)].path,
                 content |-> [kind |-> "TMPMixedGraphQL",
                              artifacts |-> [i \in 1..Len(g) |-> g[i].content]],
                 source_file |-> f]
    IN  [i \in 1..Len(files) |-> merged(files[i])]

\* The TMPGraphQLToTypeScript arm (lines 206-234).
MergeBySourceFile(arts) ==
    LET files == SortedLocs({arts[i].source_file : i \in DOMAIN arts})
        of(f) == SelectSeq(arts, LAMBDA a : a.source_file = f)
        merged(f) ==
            LET g == of(f)
            IN  [artifact_source_keys |->
                     Concat([i \in 1..Len(g) |-> g[i].artifact_source_keys]),
                 path |-> g[Len(g)].path,
                 content |-> [kind |-> "TMPMixedGraphQL",
                              artifacts |-> [i \in 1..Len(g) |-> g[i].content]],
                 source_file |-> f]
    IN  [i \in 1..Len(files) |-> merged(files[i])]

\* ------------------------------------------------------------------------
\* Inputs of generate_artifacts
\* ------------------------------------------------------------------------
Definition(name, location, directives) ==
    [name |-> name, location |-> location, directives |-> directives]

SeqsUpTo(S, n) == UNION {[1..k -> S] : k \in 0..n}

\* Sequences of definitions with pairwise distinct names (a program holds one
\* definition per name), the names taken from Names in any order.
DistinctNameSeqs(Names, Variants(_)) ==
    UNION {UNION {{s \in [1..Len(o) -> UNION {Variants(n) : n \in Names}] :
                      \A i \in 1..Len(o) : s[i] \in Variants(o[i])}
                  : o \in Orderings(N)}
           : N \in SUBSET Names}

SplitMetadatas ==
    {[parent_documents |-> ps, location |-> l,
      derived_from |-> v[1], raw_response_type_generation_mode |-> v[2]] :
        ps \in SeqsUpTo(FragNames, MaxParents), l \in Locs,
        v \in {<<None, None>>, <<Some("F"), Some("AllFieldsRequired")>>}}

ClientEdges == {[source_name |-> "F", location |-> l] : l \in Locs}

\* Every combination of the directives of a normalization operation.
NormalizationDirectives ==
    {[split |-> sp, derived_from |-> df, client_edge |-> ce,
      artifact_source |-> h, updatable |-> FALSE] :
        sp \in {None} \cup {Some(m) : m \in SplitMetadatas},
        df \in {None, Some("F")},
        ce \in {None} \cup {Some(c) : c \in ClientEdges},
        h \in {None, Some("h1")}}

\* A few directive combinations, for the inputs that vary something else.
SomeNormalizationDirectives ==
    {d \in NormalizationDirectives :
        /\ IsSome(d.split) =>
              /\ Unwrap(d.split).parent_documents = <<"G", "F">>
              /\ ~IsSome(Unwrap(d.split).derived_from)
              /\ ~IsSome(d.derived_from) /\ ~IsSome(d.client_edge)
        /\ ~IsSome(d.split) => ~IsSome(d.artifact_source)
        /\ ~(IsSome(d.derived_from) /\ IsSome(d.client_edge))}

FragmentDirectives ==
    {[split |-> None, derived_from |-> None, client_edge |-> ce,
      artifact_source |-> h, updatable |-> FALSE] :
        ce \in {None, Some([source_name |-> "A", location |-> "f2"])},
        h \in {None, Some("h1")}}

ReaderDirectives == {NoDirectives, [NoDirectives EXCEPT !.updatable = TRUE]}

PlainOps(Names, locOf) ==
    DistinctNameSeqs(Names, LAMBDA n : {Definition(n, locOf[n], NoDirectives)})

Program(operations, fragments) == [operations |-> operations, fragments |-> fragments]

Programs(normalization, reader, typegen, operation_text, source) ==
    [normalization |-> normalization, reader |-> reader, typegen |-> typegen,
     operation_text |-> operation_text, source |-> source]

SetInput(p, hashes, lang) == programs = p /\ source_hashes = hashes /\ language = lang

Languages == {"TypeScript", "TMPGraphQLToTypeScript"}

\* The inputs are drawn from four families.
\* GroupingInputs: which of the four programs hold which operation, and which
\* names have a source hash; operations without metadata directives.
GroupingInputs ==
    \E n \in UNION {PlainOps(OpNames, locOf) : locOf \in [OpNames -> Locs]},
       r \in DistinctNameSeqs(OpNames,
                LAMBDA nm : {Definition(nm, "f1", d) : d \in ReaderDirectives}),
       t \in {s \in PlainOps(OpNames, [nm \in OpNames |-> "f1"]) :
                 s \in {<<>>} \/ s[1].name = "A" \/ Len(s) = 1},
       x \in {<<>>, <<Definition("A", "f1", NoDirectives)>>},
       hashes \in SUBSET OpNames :
        SetInput(Programs(Program(n, <<>>), Program(r, <<>>), Program(t, <<>>),
                               Program(x, <<>>), Program(<<>>, <<>>)),
                      hashes, "TypeScript")

\* ClassificationInputs: one normalization operation with every combination of
\* directives.
ClassificationInputs ==
    \E d \in NormalizationDirectives,
       r \in {<<>>, <<Definition("A", "f1", NoDirectives)>>},
       t \in {<<>>, <<Definition("A", "f1", NoDirectives)>>},
       sf \in {<<>>} \cup {<<Definition("F", l, NoDirectives)>> : l \in Locs},
       hashes \in SUBSET {"A", "F"} :
        SetInput(Programs(Program(<<Definition("A", "f1", d)>>, <<>>),
                               Program(r, <<>>), Program(t, <<>>),
                               Program(<<>>, <<>>), Program(<<>>, sf)),
                      hashes, "TypeScript")

\* FragmentInputs: the fragments of the reader program, in both output modes.
FragmentInputs ==
    \E rf \in DistinctNameSeqs(FragNames,
                 LAMBDA nm : {Definition(nm, l, d) : l \in Locs, d \in FragmentDirectives}),
       tf \in {<<>>, <<Definition("F", "f1", NoDirectives)>>,
               <<Definition("F", "f1", NoDirectives), Definition("G", "f1", NoDirectives)>>},
       hashes \in {{}, {"A", "F", "G"}},
       lang \in Languages :
        SetInput(Programs(Program(<<>>, <<>>), Program(<<>>, rf), Program(<<>>, tf),
                               Program(<<>>, <<>>), Program(<<>>, <<>>)),
                      hashes, lang)

WithoutDirectives(ops) == [i \in 1..Len(ops) |-> [ops[i] EXCEPT !.directives = NoDirectives]]

\* CompleteInputs: complete programs (every operation in all four programs,
\* every fragment in the typegen program, every hash present) with operations
\* and fragments in the same and in different source files, in both modes.
CompleteInputs ==
    \E n \in DistinctNameSeqs(OpNames,
                LAMBDA nm : {Definition(nm, l, d) :
                                l \in Locs,
                                d \in IF nm = "A" THEN SomeNormalizationDirectives
                                      ELSE {NoDirectives}}),
       rf \in DistinctNameSeqs(FragNames,
                 LAMBDA nm : {Definition(nm, l, NoDirectives) : l \in Locs}),
       sl \in Locs,
       lang \in Languages :
        SetInput(Programs(Program(n, <<>>),
                               Program(WithoutDirectives(n), rf),
                               Program(WithoutDirectives(n),
                                       <<Definition("F", "f1", NoDirectives),
                                         Definition("G", "f1", NoDirectives)>>),
                               Program(WithoutDirectives(n), <<>>),
                               Program(<<>>, <<Definition("F", sl, NoDirectives)>>)),
                      OpNames \cup FragNames, lang)

\* ------------------------------------------------------------------------
\* generate_artifacts as an action
\* ------------------------------------------------------------------------
GenInit ==
    /\ \/ GroupingInputs
       \/ ClassificationInputs
       \/ FragmentInputs
       \/ CompleteInputs
    /\ grouped = <<>>
    /\ artifacts = <<>>
    /\ output = <<>>
    /\ gen_pc = "start"
    /\ ExtractorIdle
    /\ TranslatorIdle

\* group_operations(programs).into_values() yields the groups in the order of
\* the hash map, which the code does not control: any order.  The iterator
\* chain is collected at once, so one panicking closure aborts the call.
generate_artifacts ==
    /\ gen_pc = "start"
    /\ LET g == group_operations(programs)
       IN  \E order \in Orderings(DOMAIN g) :
             LET of_groups == [i \in 1..Len(order) |->
                                  GroupArtifact(programs, source_hashes, g[order[i]])]
                 of_fragments == [i \in 1..Len(programs.reader.fragments) |->
                                     FragmentArtifact(programs, source_hashes,
                                                      programs.reader.fragments[i])]
                 all == of_groups \o of_fragments
             IN  /\ grouped' = g
                 /\ IF \E i \in 1..Len(all) : ~IsSome(all[i])
                    THEN /\ gen_pc' = "panicked"
                         /\ artifacts' = <<>>
                         /\ output' = <<>>
                    ELSE /\ gen_pc' = "returned"
                         /\ artifacts' = [i \in 1..Len(all) |-> Unwrap(all[i])]
                         /\ output' = IF language = "TMPGraphQLToTypeScript"
                                      THEN MergeBySourceFile(artifacts')
                                      ELSE artifacts'
    /\ UNCHANGED <<programs, source_hashes, language>>
    /\ UNCHANGED <<ext_vars, tr_vars>>

GenNext == generate_artifacts

SpecArtifacts == GenInit /\ [][GenNext]_vars

\* ------------------------------------------------------------------------
\* Properties of the artifact generation
\* ------------------------------------------------------------------------
Returned == gen_pc = "returned"

Panicked == gen_pc = "panicked"

\* The positions of the collected artifacts of one kind made for one definition.
ArtifactsFor(kind, field, name) ==
    {i \in 1..Len(artifacts) :
        artifacts[i].content.kind = kind /\ artifacts[i].content[field] = name}

GroupsOf == {grouped[k] : k \in DOMAIN grouped}

HasSpecialMetadata(normalization) ==
    \/ IsSome(normalization.directives.split)
    \/ IsSome(normalization.directives.derived_from)
    \/ IsSome(normalization.directives.client_edge)

\* C1: after group_operations every operation of the normalization program is
\* in the normalization slot of some group.
C1_NoNormalizationDropped ==
    gen_pc # "start" =>
        \A i \in 1..Len(programs.normalization.operations) :
            \E g \in GroupsOf :
                g.normalization = Some(programs.normalization.operations[i])

\* Nothing but the one group g is generated: no other group, no fragment.
Alone(g) == GroupsOf = {g} /\ programs.reader.fragments = <<>>

\* C2 as stated: a group that holds only a normalization definition without
\* special metadata yields exactly one Operation artifact attributed to the
\* definition's own name (stated for a group that is generated alone).
C2_OnlyNormalizationYieldsOperation ==
    gen_pc # "start" =>
        \A g \in GroupsOf :
            (/\ Alone(g)
             /\ IsSome(g.normalization)
             /\ ~HasSpecialMetadata(Unwrap(g.normalization))
             /\ ~IsSome(g.reader) /\ ~IsSome(g.typegen) /\ ~IsSome(g.operation_text))
            => /\ Returned
               /\ \E i \in 1..Len(artifacts) :
                     ArtifactsFor("Operation", "normalization_operation",
                                  Unwrap(g.normalization).name) = {i}

\* C2 amended: a group whose normalization definition has no special metadata
\* yields, when it also has a reader and a typegen entry and its name has a
\* source hash, exactly one Operation artifact attributed to the definition's
\* own name; without a reader entry, a typegen entry or the hash,
\* generate_artifacts aborts.
C2_PlainNormalizationArtifact ==
    gen_pc # "start" =>
        \A g \in GroupsOf :
            (IsSome(g.normalization) /\ ~HasSpecialMetadata(Unwrap(g.normalization))) =>
                LET n == Unwrap(g.normalization)
                IN  IF IsSome(g.reader) /\ IsSome(g.typegen) /\ n.name \in source_hashes
                    THEN Returned =>
                           \E i \in 1..Len(artifacts) :
                              /\ ArtifactsFor("Operation", "normalization_operation", n.name) = {i}
                              /\ artifacts[i].artifact_source_keys =
                                    <<[k |-> "ExecutableDefinition", v |-> n.name]>>
                    ELSE Panicked

C2_Witness ==
    /\ Returned
    /\ \E g \in GroupsOf :
          /\ IsSome(g.normalization) /\ ~HasSpecialMetadata(Unwrap(g.normalization))
          /\ ArtifactsFor("Operation", "normalization_operation",
                          Unwrap(g.normalization).name) # {}

\* C3: the attribution keys of a SplitOperation artifact are [ResolverHash(h)]
\* when a resolver-hash marker is attached to the normalization definition,
\* and otherwise one ExecutableDefinition key per parent document, in order;
\* every group whose normalization definition has split metadata yields one.
C3_SplitOperationKeys ==
    Returned =>
        \A g \in GroupsOf :
            (IsSome(g.normalization) /\ IsSome(Unwrap(g.normalization).directives.split)) =>
                LET n == Unwrap(g.normalization)
                    parents == Unwrap(n.directives.split).parent_documents
                IN  \E i \in 1..Len(artifacts) :
                       /\ ArtifactsFor("SplitOperation", "normalization_operation", n.name) = {i}
                       /\ IF IsSome(n.directives.artifact_source)
                          THEN artifacts[i].artifact_source_keys =
                                  <<[k |-> "ResolverHash", v |-> n.directives.artifact_source[1]]>>
                          ELSE /\ Len(artifacts[i].artifact_source_keys) = Len(parents)
                               /\ \A j \in 1..Len(parents) :
                                     artifacts[i].artifact_source_keys[j] =
                                        [k |-> "ExecutableDefinition", v |-> parents[j]]

C3_Witness ==
    /\ Returned
    /\ \E g \in GroupsOf :
          /\ IsSome(g.normalization)
          /\ IsSome(Unwrap(g.normalization).directives.split)
          /\ IsSome(Unwrap(g.normalization).directives.artifact_source)
          /\ Unwrap(Unwrap(g.normalization).directives.split).parent_documents = <<"G", "F">>
          /\ ArtifactsFor("SplitOperation", "normalization_operation",
                          Unwrap(g.normalization).name) # {}

\* C4 as stated: a group without a normalization definition yields exactly one
\* UpdatableQuery artifact attributed to the reader when the reader exists and
\* is updatable, and aborts generate_artifacts in every other case (stated for
\* a group that is generated alone).
C4_UpdatableOrAbort ==
    gen_pc # "start" =>
        \A g \in GroupsOf :
            (Alone(g) /\ ~IsSome(g.normalization)) =>
                IF IsSome(g.reader) /\ Unwrap(g.reader).directives.updatable
                THEN /\ Returned
                     /\ \E i \in 1..Len(artifacts) :
                           /\ ArtifactsFor("UpdatableQuery", "reader_operation",
                                           Unwrap(g.reader).name) = {i}
                           /\ artifacts[i].artifact_source_keys =
                                 <<[k |-> "ExecutableDefinition", v |-> Unwrap(g.reader).name]>>
                ELSE Panicked

\* C4 amended: a group without a normalization definition whose reader exists,
\* is updatable, has a typegen entry and a source hash yields exactly one
\* UpdatableQuery artifact attributed to the reader's name; in every other
\* case (no reader, a reader that is not updatable, no typegen entry or no
\* source hash) generate_artifacts aborts.
C4_UpdatableWithTypegenOrAbort ==
    gen_pc # "start" =>
        \A g \in GroupsOf :
            ~IsSome(g.normalization) =>
                IF /\ IsSome(g.reader) /\ Unwrap(g.reader).directives.updatable
                   /\ IsSome(g.typegen) /\ Unwrap(g.reader).name \in source_hashes
                THEN Returned =>
                       \E i \in 1..Len(artifacts) :
                          /\ ArtifactsFor("UpdatableQuery", "reader_operation",
                                          Unwrap(g.reader).name) = {i}
                          /\ artifacts[i].artifact_source_keys =
                                <<[k |-> "ExecutableDefinition", v |-> Unwrap(g.reader).name]>>
                ELSE Panicked

C4_Witness ==
    /\ Returned
    /\ \E g \in GroupsOf :
          /\ ~IsSome(g.normalization)
          /\ IsSome(g.reader)
          /\ ArtifactsFor("UpdatableQuery", "reader_operation", Unwrap(g.reader).name) # {}

\* C5: every fragment of the reader program yields exactly one Fragment
\* artifact, attributed to the resolver hash when a resolver-hash marker is
\* attached, otherwise to the client-edge source name when that directive is
\* attached, otherwise to the fragment's own name; generate_artifacts aborts
\* when the typegen program lacks a fragment of the same name.
C5_FragmentArtifacts ==
    gen_pc # "start" =>
        LET fragments == programs.reader.fragments
            typegen_names == {programs.typegen.fragments[j].name :
                                 j \in 1..Len(programs.typegen.fragments)}
        IN  /\ (\E j \in 1..Len(fragments) : fragments[j].name \notin typegen_names)
                  => Panicked
            /\ Returned =>
                 \A j \in 1..Len(fragments) :
                    LET f == fragments[j]
                    IN  \E i \in 1..Len(artifacts) :
                           /\ ArtifactsFor("Fragment", "reader_fragment", f.name) = {i}
                           /\ artifacts[i].artifact_source_keys =
                                 IF IsSome(f.directives.artifact_source)
                                 THEN <<[k |-> "ResolverHash", v |-> f.directives.artifact_source[1]]>>
                                 ELSE IF IsSome(f.directives.client_edge)
                                 THEN <<[k |-> "ExecutableDefinition",
                                         v |-> f.directives.client_edge[1].source_name]>>
                                 ELSE <<[k |-> "ExecutableDefinition", v |-> f.name]>>

C5_Witness ==
    /\ Returned
    /\ \E j \in 1..Len(programs.reader.fragments) :
          LET f == programs.reader.fragments[j]
          IN  /\ IsSome(f.directives.client_edge)
              /\ ~IsSome(f.directives.artifact_source)
              /\ ArtifactsFor("Fragment", "reader_fragment", f.name) # {}

\* C6: in the mixed output mode the output holds exactly one artifact per
\* source file of the collected artifacts; its keys are the concatenation of
\* the keys of the artifacts of that file in encounter order and its content
\* holds their payloads in the same order.
C6_MixedMerge ==
    (Returned /\ language = "TMPGraphQLToTypeScript") =>
        LET files == {artifacts[i].source_file : i \in 1..Len(artifacts)}
        IN  /\ Len(output) = Cardinality(files)
            /\ \A f \in files :
                  LET mine == SelectSeq(artifacts, LAMBDA a : a.source_file = f)
                  IN  \E o \in 1..Len(output) :
                         /\ {x \in 1..Len(output) : output[x].source_file = f} = {o}
                         /\ output[o].artifact_source_keys =
                               Concat([i \in 1..Len(mine) |-> mine[i].artifact_source_keys])
                         /\ output[o].content.kind = "TMPMixedGraphQL"
                         /\ output[o].content.artifacts =
                               [i \in 1..Len(mine) |-> mine[i].content]

C6_Witness ==
    /\ Returned
    /\ language = "TMPGraphQLToTypeScript"
    /\ \E i, j \in 1..Len(artifacts) :
          /\ i < j
          /\ artifacts[i].source_file = artifacts[j].source_file
          /\ artifacts[i].artifact_source_keys # artifacts[j].artifact_source_keys
    /\ Len(output) < Len(artifacts)

\* The artifacts collected for a normalization definition, of any variant.
NormalizationArtifacts(name) ==
    {i \in 1..Len(artifacts) :
        /\ artifacts[i].content.kind \in {"Operation", "SplitOperation"}
        /\ artifacts[i].content.normalization_operation = name}

\* The Operation artifact attributed to source_name, at the path made from
\* source_file (an Option: the file is known).
OperationAttributedTo(artifact, normalization, source_name, source_file) ==
    /\ artifact.content.kind = "Operation"
    /\ artifact.artifact_source_keys = <<ExecutableDefinition(source_name)>>
    /\ Some(artifact.content.source_hash) = HashGet(source_hashes, source_name)
    /\ IsSome(source_file)
    /\ artifact.path = path_for_artifact(Unwrap(source_file), normalization.name)
    /\ artifact.source_file = normalization.location

\* The file of the fragment of the source program with the given name.
SourceFragmentFile(name) ==
    IF IsSome(FragmentLookup(programs.source.fragments, name))
    THEN Some(Unwrap(FragmentLookup(programs.source.fragments, name)).location)
    ELSE None

\* C18: when generate_artifacts returns, every group with a normalization
\* definition has exactly one artifact, classified by the first directive
\* present in the order split, derived-from, client-edge: a SplitOperation at
\* the location of the split metadata; otherwise an Operation attributed to
\* the derived-from source and its fragment's file; otherwise an Operation
\* attributed to the client-edge source and its file; otherwise an Operation
\* attributed to the definition itself.  A group with split metadata that is
\* generated alone never aborts the call, whatever else is attached.
C18_ClassificationPriority ==
    /\ \A g \in GroupsOf :
         (gen_pc # "start" /\ Alone(g) /\ IsSome(g.normalization)
             /\ IsSome(Unwrap(g.normalization).directives.split)) => Returned
    /\ Returned =>
         \A g \in GroupsOf :
            IsSome(g.normalization) =>
                LET n == Unwrap(g.normalization)
                    d == n.directives
                IN  \E i \in 1..Len(artifacts) :
                       /\ NormalizationArtifacts(n.name) = {i}
                       /\ IF IsSome(d.split)
                          THEN /\ artifacts[i].content.kind = "SplitOperation"
                               /\ artifacts[i].artifact_source_keys
                                      = SplitArtifactSourceKeys(n, Unwrap(d.split))
                               /\ artifacts[i].source_file = Unwrap(d.split).location
                          ELSE IF IsSome(d.derived_from)
                          THEN OperationAttributedTo(
                                   artifacts[i], n, Unwrap(d.derived_from),
                                   SourceFragmentFile(Unwrap(d.derived_from)))
                          ELSE IF IsSome(d.client_edge)
                          THEN OperationAttributedTo(
                                   artifacts[i], n, Unwrap(d.client_edge).source_name,
                                   Some(Unwrap(d.client_edge).location))
                          ELSE OperationAttributedTo(artifacts[i], n, n.name,
                                                     Some(n.location))

\* A group with derived-from and client-edge metadata that name different
\* files was classified.
C18_Witness ==
    /\ Returned
    /\ \E g \in GroupsOf :
          /\ IsSome(g.normalization)
          /\ LET d == Unwrap(g.normalization).directives
             IN  /\ ~IsSome(d.split) /\ IsSome(d.derived_from) /\ IsSome(d.client_edge)
                 /\ Some(Unwrap(d.client_edge).location)
                        # SourceFragmentFile(Unwrap(d.derived_from))
          /\ NormalizationArtifacts(Unwrap(g.normalization).name) # {}

\* The source file a path was built from.
PathSourceFile(path) == path[1]

\* C19: in the mixed output mode, the artifacts collected under the same
\* source_file all have a path built from the same file, so that the path of
\* the merged artifact is that of every constituent.
C19_MergedPathInvariant ==
    (Returned /\ language = "TMPGraphQLToTypeScript") =>
        \A i, j \in 1..Len(artifacts) :
            artifacts[i].source_file = artifacts[j].source_file =>
                PathSourceFile(artifacts[i].path) = PathSourceFile(artifacts[j].path)

\* ========================================================================
\* Resolver extraction: TSRelayResolverExtractor (typescript.rs) driven by
\* custom_extract_resolver (custom_resolver_extract.rs)
\* ========================================================================

\* ------------------------------------------------------------------------
\* The parsed module, as far as the extractor inspects it
\* ------------------------------------------------------------------------
\* TsType
Kw(name) == [k |-> "kw", name |-> name]

Ref(name) == [k |-> "ref", name |-> name, qualified |-> FALSE, params |-> <<>>]

Generic(name, params) == [k |-> "ref", name |-> name, qualified |-> FALSE, params |-> params]

QualifiedRef(name) == [k |-> "ref", name |-> name, qualified |-> TRUE, params |-> <<>>]

UnionType(types) == [k |-> "union", types |-> types]

IntersectionType(types) == [k |-> "intersection", types |-> types]

\* TsTypeLit and its members (TsTypeElement)
TypeLit(members) == [k |-> "typelit", members |-> members]

Property(name, type_ann) ==
    [property |-> TRUE, key_is_ident |-> TRUE, name |-> name, type_ann |-> type_ann]

\* TsLitType
LitBool == [k |-> "litbool"]

LitStr(value) == [k |-> "litstr", value |-> value]

\* A module path or module specifier: directory, file stem and extension.
ModulePath(dir, stem, ext) == [dir |-> dir, stem |-> stem, ext |-> ext]

\* Path::new(source_module_path).file_stem()
FileStem(path) == ModulePath("", path.stem, "")

\* JSImportType
Named(name) == [k |-> "Named", name |-> name]

Default == [k |-> "Default"]

Namespace(location) == [k |-> "Namespace", location |-> location]

ModuleResolutionKey(module_name, import_type) ==
    [module_name |-> module_name, import_type |-> import_type]

\* Location: the source file key of the handler and the span of the node.  A
\* span is the path of the node: the index of the statement, the part of the
\* statement, and the position inside a type annotation.
Location(source, span) == [source |-> source, span |-> span]

\* LocationHandler::to_location
to_location(location_handler, span) == Location(location_handler, span)

\* Diagnostic::error(kind, location) and .annotate(message, location)
Diagnostic(kind, location) == [kind |-> kind, location |-> location, annotations |-> <<>>]

Annotate(diagnostic, message, location) ==
    [diagnostic EXCEPT !.annotations = @ \o <<[message |-> message, location |-> location]>>]

\* DiagnosticsResult<T>, and the abort of a panic
Ok(v) == [t |-> "ok", v |-> v]

Err(diagnostics) == [t |-> "err", errs |-> diagnostics]

Panic == [t |-> "panic"]

IsOk(r) == r.t = "ok"

IsErr(r) == r.t = "err"

\* `let value = ...;` and `let value = ...?;` followed by the rest of the
\* function: an error or an abort of the first part is what the function
\* returns.
With(value, Rest(_)) == Rest(value)

Try(result, Rest(_)) == IF IsOk(result) THEN Rest(result.v) ELSE result

\* ModuleResolution::get: the imports, then the exports of the file
ModuleResolution_get(module_resolution, name) ==
    IF name \in DOMAIN module_resolution.imports THEN Some(module_resolution.imports[name])
    ELSE IF name \in DOMAIN module_resolution.exports THEN Some(module_resolution.exports[name])
    ELSE None

\* FxHashMap::get
MapGet(m, key) == IF key \in DOMAIN m THEN Some(m[key]) ELSE None

\* CustomType, the key of the custom scalar map
CustomTypePath(name, path) == [k |-> "Path", name |-> name, path |-> path]

CustomTypeName(name) == [k |-> "Name", name |-> name]

\* TypeAnnotation of the GraphQL syntax tree
NamedTypeAnnotation(name, span) == [k |-> "Named", name |-> name, span |-> span]

ListTypeAnnotation(type_, span) == [k |-> "List", type_ |-> type_, span |-> span]

NonNullTypeAnnotation(type_, span) == [k |-> "NonNull", type_ |-> type_, span |-> span]

\* ------------------------------------------------------------------------
\* unwrap_nullable_type, get_unqualified_identifier_or_fail
\* ------------------------------------------------------------------------
IsNullMarker(type_ann) == type_ann.k = "kw" /\ type_ann.name \in {"null", "undefined"}

\* Mutant: only null makes a union optional.
unwrap_nullable_type_null_only(return_type, span, location_handler) ==
    IF return_type.k = "intersection" THEN
        Err(<<Diagnostic("UnsupportedType", to_location(location_handler, span))>>)
    ELSE IF return_type.k = "union" THEN
        LET types == return_type.types
            is_required == \A i \in 1..Len(types) : types[i] # Kw("null")
            non_optional_type == {i \in 1..Len(types) : ~IsNullMarker(types[i])}
        IN  IF non_optional_type = {} THEN Panic
            ELSE LET first == CHOOSE i \in non_optional_type :
                                 \A j \in non_optional_type : i <= j
                 IN  Ok([type |-> types[first], span |-> Append(span, first),
                         is_optional |-> ~is_required])
    ELSE Ok([type |-> return_type, span |-> span, is_optional |-> FALSE])

\* Mutant: a union needs exactly one member that is not null or undefined.
unwrap_nullable_type_checked(return_type, span, location_handler) ==
    IF return_type.k = "intersection" THEN
        Err(<<Diagnostic("UnsupportedType", to_location(location_handler, span))>>)
    ELSE IF return_type.k = "union" THEN
        LET types == return_type.types
            is_required == \A i \in 1..Len(types) : ~IsNullMarker(types[i])
            non_optional_type == {i \in 1..Len(types) : ~IsNullMarker(types[i])}
        IN  IF Cardinality(non_optional_type) # 1
            THEN Err(<<Diagnostic("UnsupportedType", to_location(location_handler, span))>>)
            ELSE LET first == CHOOSE i \in non_optional_type : TRUE
                 IN  Ok([type |-> types[first], span |-> Append(span, first),
                         is_optional |-> ~is_required])
    ELSE Ok([type |-> return_type, span |-> span, is_optional |-> FALSE])

\* The result value is the effective type, its span and the optionality.
unwrap_nullable_type(return_type, span, location_handler) ==
    IF return_type.k = "intersection" THEN
        Err(<<Diagnostic("UnsupportedType", to_location(location_handler, span))>>)
    ELSE IF return_type.k = "union" THEN
        LET types == return_type.types
            is_required == \A i \in 1..Len(types) : ~IsNullMarker(types[i])
            non_optional_type == {i \in 1..Len(types) : ~IsNullMarker(types[i])}
        IN  IF non_optional_type = {} THEN Panic
            ELSE LET first == CHOOSE i \in non_optional_type :
                                 \A j \in non_optional_type : i <= j
                 IN  Ok([type |-> types[first], span |-> Append(span, first),
                         is_optional |-> ~is_required])
    ELSE Ok([type |-> return_type, span |-> span, is_optional |-> FALSE])

get_unqualified_identifier_or_fail(type_ref, location) ==
    IF type_ref.qualified
    THEN Err(<<Diagnostic("UnsupportedType", location)>>)
    ELSE Ok([item |-> type_ref.name, location |-> location])

\* ------------------------------------------------------------------------
\* return_type_to_type_annotation, ts_type_to_field_arguments
\* ------------------------------------------------------------------------
WithLocation(item, location) == [item |-> item, location |-> location]

\* Identifier::name_with_location(object.location.source_location())
name_with_location(object) == WithLocation(object.type_name, object.location)

\* Mutant: the type-definition table is consulted before the custom scalars.
NamedReference_objects_first(custom_scalar_map, identifier, module_resolution, type_definitions) ==
    LET module_key_opt == ModuleResolution_get(module_resolution, identifier.item)
        scalar_key == IF IsSome(module_key_opt)
                      THEN CustomTypePath(identifier.item, Unwrap(module_key_opt).module_name)
                      ELSE CustomTypeName(identifier.item)
        custom_scalar == MapGet(custom_scalar_map, scalar_key)
        definition == IF IsSome(module_key_opt)
                      THEN MapGet(type_definitions, Unwrap(module_key_opt)) ELSE None
    IN  IF IsSome(definition) /\ Unwrap(definition).kind = "StrongObjectResolver"
        THEN Err(<<Diagnostic("StrongReturnTypeNotAllowed", identifier.location)>>)
        ELSE IF IsSome(definition) /\ Unwrap(definition).kind = "WeakObjectType"
        THEN Ok(name_with_location(Unwrap(definition)))
        ELSE IF IsSome(custom_scalar)
        THEN Ok(WithLocation(Unwrap(custom_scalar), identifier.location))
        ELSE IF ~IsSome(module_key_opt)
        THEN Err(<<Diagnostic("ExpectedFlowDefinitionForType", identifier.location)>>)
        ELSE Err(<<Diagnostic("ModuleNotFound", identifier.location)>>)

\* The bare type reference without type parameters (lines 1036-1088): the
\* name of the GraphQL type, with the location that becomes the identifier.
NamedReference(custom_scalar_map, identifier, module_resolution, type_definitions) ==
    LET module_key_opt == ModuleResolution_get(module_resolution, identifier.item)
        scalar_key == IF IsSome(module_key_opt)
                      THEN CustomTypePath(identifier.item, Unwrap(module_key_opt).module_name)
                      ELSE CustomTypeName(identifier.item)
        custom_scalar == MapGet(custom_scalar_map, scalar_key)
    IN  IF IsSome(custom_scalar)
        THEN Ok(WithLocation(Unwrap(custom_scalar), identifier.location))
        ELSE IF ~IsSome(module_key_opt)
        THEN Err(<<Diagnostic("ExpectedFlowDefinitionForType", identifier.location)>>)
        ELSE LET definition == MapGet(type_definitions, Unwrap(module_key_opt))
             IN  IF IsSome(definition) /\ Unwrap(definition).kind = "StrongObjectResolver"
                 THEN Err(<<Diagnostic("StrongReturnTypeNotAllowed", identifier.location)>>)
                 ELSE IF IsSome(definition) /\ Unwrap(definition).kind = "WeakObjectType"
                 THEN Ok(name_with_location(Unwrap(definition)))
                 ELSE Err(<<Diagnostic("ModuleNotFound", identifier.location)>>)

\* Mutant: the non-null wrapper is applied whatever the tracking.
WrapNonNull_always(type_annotation, levels, is_optional, use_semantic_non_null, span) ==
    IF ~is_optional
    THEN Ok([type |-> NonNullTypeAnnotation(type_annotation, span), levels |-> <<>>])
    ELSE Ok([type |-> type_annotation, levels |-> levels])

\* The non-null wrapping at the end of the translation (lines 1242-1257).
WrapNonNull(type_annotation, levels, is_optional, use_semantic_non_null, span) ==
    IF ~is_optional
    THEN IF use_semantic_non_null
         THEN Ok([type |-> type_annotation, levels |-> Append(levels, 0)])
         ELSE Ok([type |-> NonNullTypeAnnotation(type_annotation, span), levels |-> <<>>])
    ELSE Ok([type |-> type_annotation, levels |-> levels])

\* Mutant: the levels are increased after the list has recorded its own.
ListOf_shift_after_wrapping(inner, is_optional, use_semantic_non_null, span) ==
    LET wrapped == WrapNonNull(ListTypeAnnotation(inner.type, span), inner.levels,
                               is_optional, use_semantic_non_null, span)
    IN  Ok([type |-> wrapped.v.type,
            levels |-> [i \in 1..Len(wrapped.v.levels) |-> wrapped.v.levels[i] + 1]])

\* Mutant: the list records level 1 for its element.
ListOf_element_level(inner, is_optional, use_semantic_non_null, span) ==
    WrapNonNull(ListTypeAnnotation(inner.type, span), <<1>>, is_optional,
                use_semantic_non_null, span)

\* The list of a translated element (lines 1107-1117): the levels of the
\* element move one level down.
ListOf(inner, is_optional, use_semantic_non_null, span) ==
    WrapNonNull(ListTypeAnnotation(inner.type, span),
                [i \in 1..Len(inner.levels) |-> inner.levels[i] + 1],
                is_optional, use_semantic_non_null, span)

\* Mutant: RelayResolverValue is optional only when the annotation says so.
RelayResolverValue_as_written(is_optional, use_semantic_non_null, span) ==
    WrapNonNull(NamedTypeAnnotation("RelayResolverValue", span), <<>>, is_optional,
                use_semantic_non_null, span)

\* RelayResolverValue<T> (lines 1144-1157): always optional.
RelayResolverValue(is_optional, use_semantic_non_null, span) ==
    WrapNonNull(NamedTypeAnnotation("RelayResolverValue", span), <<>>, TRUE,
                use_semantic_non_null, span)

\* Mutant: the element of a list is translated with the tracking of the caller.
RECURSIVE return_type_to_type_annotation_tracked_elements(_, _, _, _, _, _, _)
return_type_to_type_annotation_tracked_elements(custom_scalar_map, return_type, span, module_resolution, type_definitions, use_semantic_non_null, location_handler) ==
    Try(unwrap_nullable_type(return_type, span, location_handler), LAMBDA unwrapped :
        LET ty == unwrapped.type
            sp == unwrapped.span
            is_optional == unwrapped.is_optional
            location == to_location(location_handler, sp)
            named(name, at) ==
                WrapNonNull(NamedTypeAnnotation(name, at), <<>>, is_optional,
                            use_semantic_non_null, sp)
        IN  IF ty.k = "ref" THEN
                Try(get_unqualified_identifier_or_fail(
                        ty, to_location(location_handler, Append(sp, "name"))),
                    LAMBDA identifier :
                    IF Len(ty.params) = 0 THEN
                        Try(NamedReference(custom_scalar_map, identifier,
                                           module_resolution, type_definitions),
                            LAMBDA graphql_typename :
                                named(graphql_typename.item, graphql_typename.location.span))
                    ELSE IF Len(ty.params) = 1 THEN
                        IF ty.name \in {"Array", "ReadOnlyArray"} THEN
                            Try(return_type_to_type_annotation_tracked_elements(
                                    custom_scalar_map, ty.params[1], Append(sp, 1),
                                    module_resolution, type_definitions,
                                    use_semantic_non_null, location_handler),
                                LAMBDA inner :
                                    ListOf(inner, is_optional, use_semantic_non_null, sp))
                        ELSE IF ty.name = "IdOf" THEN
                            IF ty.params[1].k = "litstr"
                            THEN named(ty.params[1].value, Append(sp, 1))
                            ELSE Err(<<Diagnostic("Todo",
                                        to_location(location_handler, Append(sp, 1)))>>)
                        ELSE IF ty.name = "RelayResolverValue" THEN
                            RelayResolverValue(is_optional, use_semantic_non_null, sp)
                        ELSE Err(<<Diagnostic("UnSupportedGeneric", location)>>)
                    ELSE Err(<<Diagnostic("Todo", location)>>))
            ELSE IF ty.k = "kw" /\ ty.name = "string" THEN named("String", sp)
            ELSE IF ty.k = "kw" /\ ty.name = "number" THEN named("Float", sp)
            ELSE IF ty.k = "kw" /\ ty.name = "boolean" THEN named("Boolean", sp)
            ELSE IF ty.k = "litbool" THEN named("Boolean", sp)
            ELSE Err(<<Diagnostic("UnsupportedType", location)>>))

\* The result value is the type annotation and the semantic non-null levels.
RECURSIVE return_type_to_type_annotation(_, _, _, _, _, _, _)
return_type_to_type_annotation(custom_scalar_map, return_type, span, module_resolution, type_definitions, use_semantic_non_null, location_handler) ==
    Try(unwrap_nullable_type(return_type, span, location_handler), LAMBDA unwrapped :
        LET ty == unwrapped.type
            sp == unwrapped.span
            is_optional == unwrapped.is_optional
            location == to_location(location_handler, sp)
            named(name, at) ==
                WrapNonNull(NamedTypeAnnotation(name, at), <<>>, is_optional,
                            use_semantic_non_null, sp)
        IN  IF ty.k = "ref" THEN
                Try(get_unqualified_identifier_or_fail(
                        ty, to_location(location_handler, Append(sp, "name"))),
                    LAMBDA identifier :
                    IF Len(ty.params) = 0 THEN
                        Try(NamedReference(custom_scalar_map, identifier,
                                           module_resolution, type_definitions),
                            LAMBDA graphql_typename :
                                named(graphql_typename.item, graphql_typename.location.span))
                    ELSE IF Len(ty.params) = 1 THEN
                        IF ty.name \in {"Array", "ReadOnlyArray"} THEN
                            Try(return_type_to_type_annotation(
                                    custom_scalar_map, ty.params[1], Append(sp, 1),
                                    module_resolution, type_definitions, FALSE,
                                    location_handler),
                                LAMBDA inner :
                                    ListOf(inner, is_optional, use_semantic_non_null, sp))
                        ELSE IF ty.name = "IdOf" THEN
                            IF ty.params[1].k = "litstr"
                            THEN named(ty.params[1].value, Append(sp, 1))
                            ELSE Err(<<Diagnostic("Todo",
                                        to_location(location_handler, Append(sp, 1)))>>)
                        ELSE IF ty.name = "RelayResolverValue" THEN
                            RelayResolverValue(is_optional, use_semantic_non_null, sp)
                        ELSE Err(<<Diagnostic("UnSupportedGeneric", location)>>)
                    ELSE Err(<<Diagnostic("Todo", location)>>))
            ELSE IF ty.k = "kw" /\ ty.name = "string" THEN named("String", sp)
            ELSE IF ty.k = "kw" /\ ty.name = "number" THEN named("Float", sp)
            ELSE IF ty.k = "kw" /\ ty.name = "boolean" THEN named("Boolean", sp)
            ELSE IF ty.k = "litbool" THEN named("Boolean", sp)
            ELSE Err(<<Diagnostic("UnsupportedType", location)>>))

\* Mutant: the type of an argument is translated with tracking.
RECURSIVE FieldArgumentItems_tracked(_, _, _, _, _, _, _, _)
FieldArgumentItems_tracked(custom_scalar_map, members, i, span, module_resolution, type_definitions, location_handler, items) ==
    IF i > Len(members) THEN Ok(items)
    ELSE LET prop == members[i]
             prop_span == Append(span, i)
         IN  IF ~prop.property THEN
                 FieldArgumentItems_tracked(custom_scalar_map, members, i + 1, span, module_resolution,
                                    type_definitions, location_handler, items)
             ELSE IF ~prop.key_is_ident THEN
                 Err(<<Diagnostic("IncorrectArgumentsDefinition",
                                  to_location(location_handler, Append(prop_span, "key")))>>)
             ELSE IF ~IsSome(prop.type_ann) THEN
                 Err(<<Diagnostic("IncorrectArgumentsDefinition",
                                  to_location(location_handler, prop_span))>>)
             ELSE Try(return_type_to_type_annotation(
                          custom_scalar_map, Unwrap(prop.type_ann),
                          Append(prop_span, "type"), module_resolution,
                          type_definitions, TRUE, location_handler),
                      LAMBDA translated :
                          FieldArgumentItems_tracked(
                              custom_scalar_map, members, i + 1, span, module_resolution,
                              type_definitions, location_handler,
                              Append(items, [name |-> prop.name,
                                             name_span |-> Append(prop_span, "key"),
                                             type_ |-> translated.type,
                                             span |-> prop_span])))

\* The loop over the members of the literal (lines 1277-1322): items is the
\* list built so far.
RECURSIVE FieldArgumentItems(_, _, _, _, _, _, _, _)
FieldArgumentItems(custom_scalar_map, members, i, span, module_resolution, type_definitions, location_handler, items) ==
    IF i > Len(members) THEN Ok(items)
    ELSE LET prop == members[i]
             prop_span == Append(span, i)
         IN  IF ~prop.property THEN
                 FieldArgumentItems(custom_scalar_map, members, i + 1, span, module_resolution,
                                    type_definitions, location_handler, items)
             ELSE IF ~prop.key_is_ident THEN
                 Err(<<Diagnostic("IncorrectArgumentsDefinition",
                                  to_location(location_handler, Append(prop_span, "key")))>>)
             ELSE IF ~IsSome(prop.type_ann) THEN
                 Err(<<Diagnostic("IncorrectArgumentsDefinition",
                                  to_location(location_handler, prop_span))>>)
             ELSE Try(return_type_to_type_annotation(
                          custom_scalar_map, Unwrap(prop.type_ann),
                          Append(prop_span, "type"), module_resolution,
                          type_definitions, FALSE, location_handler),
                      LAMBDA translated :
                          FieldArgumentItems(
                              custom_scalar_map, members, i + 1, span, module_resolution,
                              type_definitions, location_handler,
                              Append(items, [name |-> prop.name,
                                             name_span |-> Append(prop_span, "key"),
                                             type_ |-> translated.type,
                                             span |-> prop_span])))

ts_type_to_field_arguments(custom_scalar_map, args_type, span, module_resolution, type_definitions, location_handler) ==
    IF args_type.k # "typelit"
    THEN Err(<<Diagnostic("IncorrectArgumentsDefinition", to_location(location_handler, span))>>)
    ELSE Try(FieldArgumentItems(custom_scalar_map, args_type.members, 1, span,
                                module_resolution, type_definitions, location_handler, <<>>),
             LAMBDA items : Ok([items |-> items, span |-> span]))

\* ------------------------------------------------------------------------
\* Statements of a module (swc_ecma_ast::ModuleItem) and their comments
\* ------------------------------------------------------------------------
\* The leading comment of a statement: whether its text contains the
\* @RelayResolver marker, and what the docblock collaborators return for it.
\* has_resolver_field: the parsed docblock has a field named RelayResolver.
Comment(field_value, description) ==
    [resolver |-> TRUE, docblock_ok |-> TRUE, has_resolver_field |-> TRUE,
     description_ok |-> TRUE, field_value |-> field_value, description |-> description,
     deprecated |-> None]

ImportSpecifier(kind, local, imported) == [kind |-> kind, local |-> local, imported |-> imported]

Import(src, specifiers) ==
    [k |-> "import", comment |-> None, src |-> src, specifiers |-> specifiers]

Param(is_ident, type_ann) == [is_ident |-> is_ident, type_ann |-> type_ann]

ExportFn(comment, ident, params, return_type) ==
    [k |-> "export_fn", comment |-> comment, ident |-> ident, params |-> params,
     return_type |-> return_type]

ExportTypeAlias(comment, id, type_ann) ==
    [k |-> "export_alias", comment |-> comment, id |-> id, type_ann |-> type_ann]

\* An export declaration that is neither a function nor a type alias.
ExportOther(comment) == [k |-> "export_other", comment |-> comment]

\* A module item that is not an export declaration.
PlainStatement(comment) == [k |-> "statement", comment |-> comment]

\* The names the extractor inspects by character.
is_lowercase_initial(name_str) ==
    name_str \in {"name", "age", "nick", "hello", "getName", "friends", "greet", "boss",
                  "greeting", "viewer", "client.greeting", "label"}

contains_dot(name_str) == name_str \in {"Client.greeting", "client.greeting"}

ends_with_key(name_str) == name_str \in {"UserFrag$key"}

strip_suffix_key(name_str) == IF name_str = "UserFrag$key" THEN "UserFrag" ELSE name_str

\* ResolverSourceHash::new(text)
ResolverSourceHash(path) == [hash_of |-> path]

\* The extractor state that a scan changes statement by statement.
ExtState(type_definitions, unresolved_field_definitions) ==
    [type_definitions |-> type_definitions,
     unresolved_field_definitions |-> unresolved_field_definitions]

\* The outcome of a step: the state after it and its DiagnosticsResult.
Step(ext, result) == [ext |-> ext, result |-> result]

\* ------------------------------------------------------------------------
\* typescript_extract.rs
\* ------------------------------------------------------------------------
LIVE_STATE_TYPE_NAME == "LiveState"

extract_return_type_from_resolver_function(node, i, location_handler) ==
    IF ~IsSome(node.return_type)
    THEN Err(<<Diagnostic("MissingReturnType", to_location(location_handler, <<i, "fn">>))>>)
    ELSE LET ann == Unwrap(node.return_type)
         IN  IF ann.k = "ref" THEN
                 IF ann.qualified
                 THEN Err(<<Diagnostic("UnsupportedType",
                                       to_location(location_handler, <<i, "ret">>))>>)
                 ELSE IF Len(ann.params) > 1
                 THEN Err(<<Diagnostic("UnsupportedType",
                                       to_location(location_handler, <<i, "ret">>))>>)
                 ELSE IF ann.name = LIVE_STATE_TYPE_NAME THEN
                     IF Len(ann.params) = 0
                     THEN Err(<<Diagnostic("LiveStateExpectedSingleGeneric",
                                           to_location(location_handler, <<i, "ret">>))>>)
                     ELSE Ok([return_type |-> ann.params[1], span |-> <<i, "ret", 1>>,
                              is_live |-> Some(to_location(location_handler, <<i, "fn">>))])
                 ELSE Ok([return_type |-> ann, span |-> <<i, "ret">>, is_live |-> None])
             ELSE Ok([return_type |-> ann, span |-> <<i, "ret">>, is_live |-> None])

extract_entity_type_from_resolver_function(node, i, location_handler) ==
    IF Len(node.params) = 0 THEN Ok(None)
    ELSE IF node.params[1].is_ident THEN
        IF ~IsSome(node.params[1].type_ann)
        THEN Err(<<Diagnostic("MissingParamType",
                              to_location(location_handler, <<i, "param", 1, "pat">>))>>)
        ELSE Ok(Some(Unwrap(node.params[1].type_ann)))
    ELSE Err(<<Diagnostic("UnsupportedType", to_location(location_handler, <<i, "fn">>))>>)

extract_params_from_second_argument(node, i, location_handler) ==
    IF Len(node.params) > 1 THEN
        IF node.params[2].is_ident THEN
            IF ~IsSome(node.params[2].type_ann)
            THEN Err(<<Diagnostic("MissingParamType",
                                  to_location(location_handler, <<i, "param", 1>>))>>)
            ELSE Ok(Some(Unwrap(node.params[2].type_ann)))
        ELSE Ok(None)
    ELSE Ok(None)

\* ------------------------------------------------------------------------
\* TSRelayResolverExtractor: extraction of one statement
\* ------------------------------------------------------------------------
\* ResolverTypescriptData::Strong(FieldData)
extract_function(node, i, location_handler) ==
    Try(extract_return_type_from_resolver_function(node, i, location_handler), LAMBDA ret :
    Try(extract_entity_type_from_resolver_function(node, i, location_handler),
        LAMBDA entity_type :
    Try(extract_params_from_second_argument(node, i, location_handler), LAMBDA arguments :
        Ok([data |-> "Strong",
            field_name |-> WithLocation(node.ident,
                                        to_location(location_handler, <<i, "ident">>)),
            return_type |-> ret.return_type, return_span |-> ret.span,
            entity_type |-> entity_type, arguments |-> arguments,
            is_live |-> ret.is_live]))))

\* ResolverTypescriptData::Weak(WeakObjectData)
extract_type_alias(node, i, location_handler) ==
    Ok([data |-> "Weak",
        field_name |-> WithLocation(node.id, to_location(location_handler, <<i, "alias">>)),
        type_alias |-> node.type_ann])

extract_entity_name(entity_type, span, location_handler) ==
    LET location == to_location(location_handler, span)
    IN  IF entity_type.k = "ref" THEN
            IF entity_type.qualified
            THEN Err(<<Diagnostic("UnsupportedType", location)>>)
            ELSE Ok(WithLocation(entity_type.name,
                                 to_location(location_handler, Append(span, "name"))))
        ELSE IF entity_type.k = "kw" /\ entity_type.name = "number"
        THEN Ok(WithLocation("Float", location))
        ELSE IF entity_type.k = "kw" /\ entity_type.name = "string"
        THEN Ok(WithLocation("String", location))
        ELSE Err(<<Diagnostic("UnsupportedType", location)>>)

extract_graphql_types(node, i, location_handler) ==
    IF node.k = "export_fn" THEN extract_function(node, i, location_handler)
    ELSE IF node.k = "export_alias" THEN extract_type_alias(node, i, location_handler)
    ELSE IF node.k = "export_other"
    THEN Err(<<Diagnostic("ExpectedFunctionOrTypeAlias",
                          Location(location_handler, <<i, "range">>))>>)
    ELSE Err(<<Diagnostic("ExpectedNamedExport", Location(location_handler, <<i, "range">>))>>)

\* ------------------------------------------------------------------------
\* Collaborators of relay_docblock, as the extractor uses them
\* ------------------------------------------------------------------------
\* A fragment definition found in the embedded GraphQL of a file; arguments
\* is what extract_fragment_arguments returns for it.
FragmentDefinition(name, type_condition, location, arguments) ==
    [name |-> name, type_condition |-> type_condition, location |-> location,
     arguments |-> arguments]

\* relay_docblock::assert_fragment_definition
assert_fragment_definition(entity_name, fragment_name, fragment_definitions) ==
    LET hits == SelectSeq(fragment_definitions, LAMBDA f : f.name = fragment_name)
    IN  IF hits = <<>>
        THEN Err(<<Diagnostic("FragmentNotFound", entity_name.location)>>)
        ELSE Ok(hits[1])

\* relay_docblock::validate_fragment_arguments: every argument of the
\* fragment needs a field argument of the same name.
validate_fragment_arguments(source_location, field_arguments, fragment_location, fragment_arguments) ==
    LET names == {field_arguments.items[j].name : j \in 1..Len(field_arguments.items)}
    IN  IF \A j \in 1..Len(fragment_arguments) : fragment_arguments[j] \in names
        THEN Ok(TRUE)
        ELSE Err(<<Diagnostic("MissingFragmentArgument",
                              Location(source_location, field_arguments.span))>>)

\* ------------------------------------------------------------------------
\* TSRelayResolverExtractor: registration of a declaration
\* ------------------------------------------------------------------------
UnresolvedTSFieldDefinition(entity_name, field_name, return_type, return_span, arguments, arguments_span, source_hash, is_live, description, deprecated, root_fragment, entity_type) ==
    [entity_name |-> entity_name, field_name |-> field_name, return_type |-> return_type,
     return_span |-> return_span, arguments |-> arguments, arguments_span |-> arguments_span,
     source_hash |-> source_hash, is_live |-> is_live, description |-> description,
     deprecated |-> deprecated, root_fragment |-> root_fragment, entity_type |-> entity_type]

\* Mutant: the owner is looked up when the field is scanned, so a field on a
\* type that is not registered yet is rejected instead of deferred.
add_field_definition_eager(ext, module_resolution, fragment_definitions, field_definition, location_handler) ==
    LET push(fd) ==
            Step([ext EXCEPT !.unresolved_field_definitions =
                      Append(@, <<fd, location_handler>>)], Ok(TRUE))
    IN  IF ~IsSome(field_definition.entity_name) THEN push(field_definition)
        ELSE
        LET entity_name == Unwrap(field_definition.entity_name)
            key == ModuleResolution_get(module_resolution, entity_name.item)
        IN  IF ~IsSome(key)
            THEN Step(ext, Err(<<Diagnostic("ExpectedFlowDefinitionForType",
                                            entity_name.location)>>))
            ELSE IF Unwrap(key) \notin DOMAIN ext.type_definitions
            THEN Step(ext, Err(<<Diagnostic("ModuleNotFound", entity_name.location)>>))
            ELSE push(field_definition)

add_field_definition(ext, module_resolution, fragment_definitions, field_definition, location_handler) ==
    LET push(fd) ==
            Step([ext EXCEPT !.unresolved_field_definitions =
                      Append(@, <<fd, location_handler>>)], Ok(TRUE))
    IN  IF ~IsSome(field_definition.entity_name) THEN push(field_definition)
        ELSE
        LET entity_name == Unwrap(field_definition.entity_name)
            name == entity_name.item
            key == ModuleResolution_get(module_resolution, name)
        IN  IF ~IsSome(key)
            THEN Step(ext, Err(<<Diagnostic("ExpectedFlowDefinitionForType",
                                            entity_name.location)>>))
            ELSE IF Unwrap(key).module_name.ext = "graphql" /\ ends_with_key(name) THEN
                LET fragment_definition ==
                        assert_fragment_definition(entity_name, strip_suffix_key(name),
                                                   fragment_definitions)
                IN  IF ~IsOk(fragment_definition) THEN Step(ext, fragment_definition)
                    ELSE IF ~IsOk(fragment_definition.v.arguments)
                    THEN Step(ext, fragment_definition.v.arguments)
                    ELSE push([field_definition EXCEPT
                                 !.entity_type =
                                     Some(WithLocation(
                                         fragment_definition.v.type_condition,
                                         Location(fragment_definition.v.location,
                                                  <<"type_condition">>))),
                                 !.root_fragment =
                                     Some([fragment |->
                                               WithLocation(
                                                   fragment_definition.v.name,
                                                   Location(fragment_definition.v.location,
                                                            <<"name">>)),
                                           arguments |->
                                               IF IsSome(fragment_definition.v.arguments.v)
                                               THEN Unwrap(fragment_definition.v.arguments.v)
                                               ELSE <<>>])])
            ELSE push(field_definition)

\* Mutant: a second insertion replaces the registered definition.
insert_type_definition_overwrite(type_definitions, key, data) ==
    IF key \in DOMAIN type_definitions
    THEN [type_definitions |-> MapInsert(type_definitions, key, data),
          result |-> Err(<<Annotate(Diagnostic("DuplicateTypeDefinitions", data.location),
                                    "Previous type definition",
                                    type_definitions[key].location)>>)]
    ELSE [type_definitions |-> MapInsert(type_definitions, key, data), result |-> Ok(TRUE)]

insert_type_definition(type_definitions, key, data) ==
    IF key \in DOMAIN type_definitions
    THEN [type_definitions |-> type_definitions,
          result |-> Err(<<Annotate(Diagnostic("DuplicateTypeDefinitions", data.location),
                                    "Previous type definition",
                                    type_definitions[key].location)>>)]
    ELSE [type_definitions |-> MapInsert(type_definitions, key, data), result |-> Ok(TRUE)]

\* The step of an insertion into the table of the state.
InsertStep(ext, key, data) ==
    LET inserted == insert_type_definition(ext.type_definitions, key, data)
    IN  Step([ext EXCEPT !.type_definitions = inserted.type_definitions], inserted.result)

StrongObjectIr(name, source_hash, is_live, description) ==
    [kind |-> "StrongObjectResolver", type_name |-> name.item, location |-> name.location,
     rhs_location |-> name.location, root_fragment |-> [id_fragment_of |-> name.item],
     description |-> description, live |-> is_live, source_hash |-> source_hash]

\* Mutant: the declaration of a type alias is a strong object.
WeakObjectIr_strong(name, source_hash, description) ==
    [kind |-> "StrongObjectResolver", type_name |-> name.item, location |-> name.location,
     rhs_location |-> name.location, description |-> description,
     source_hash |-> source_hash]

WeakObjectIr(name, source_hash, description) ==
    [kind |-> "WeakObjectType", type_name |-> name.item, location |-> name.location,
     rhs_location |-> name.location, description |-> description,
     source_hash |-> source_hash]

add_type_definition(ext, module_resolution, name, return_type, return_span, source_hash, is_live, description, location_handler) ==
    LET strong_object == StrongObjectIr(name, source_hash, is_live, description)
        location == to_location(location_handler, return_span)
    IN  IF return_type.k = "ref" THEN
            LET ident == get_unqualified_identifier_or_fail(return_type, location)
            IN  IF ~IsOk(ident) THEN Step(ext, ident)
                ELSE LET key == ModuleResolution_get(module_resolution, ident.v.item)
                     IN  IF ~IsSome(key)
                         THEN Step(ext, Err(<<Diagnostic("ExpectedFlowDefinitionForType",
                                                         ident.v.location)>>))
                         ELSE IF Unwrap(key).import_type.k = "Namespace"
                         THEN Step(ext, Err(<<Annotate(
                                  Diagnostic("UseNamedOrDefaultImport", ident.v.location),
                                  "is imported from", Unwrap(key).import_type.location)>>))
                         ELSE InsertStep(ext, Unwrap(key), strong_object)
        ELSE IF return_type.k = "typelit"
        THEN Step(ext, Err(<<Diagnostic("ObjectNotSupported", location)>>))
        ELSE Step(ext, Err(<<Diagnostic("UnsupportedType", location)>>))

\* get_object_fields: the properties with an identifier key, by name (a map:
\* a later property replaces an earlier one of the same name).
get_object_fields(node) ==
    LET idx == {j \in 1..Len(node.members) :
                   node.members[j].property /\ node.members[j].key_is_ident}
        names == {node.members[j].name : j \in idx}
        last(n) == CHOOSE j \in idx : node.members[j].name = n
                       /\ \A x \in idx : node.members[x].name = n => x <= j
    IN  [n \in names |-> last(n)]

\* The deferred fields of a weak object, pushed in the order of the hash map
\* (lines 437-458): here the order of the chosen ordering of the names.
RECURSIVE PushWeakFields(_, _, _, _, _, _, _, _)
PushWeakFields(ext, order, node, field_map, name, weak_object, rhs_span, location_handler) ==
    IF order = <<>> THEN ext
    ELSE LET member == node.members[field_map[Head(order)]]
             fd == UnresolvedTSFieldDefinition(
                       Some(name),
                       WithLocation(Head(order), to_location(location_handler, rhs_span)),
                       Unwrap(member.type_ann),
                       <<rhs_span, field_map[Head(order)], "type">>,
                       None, <<>>, weak_object.source_hash, None, weak_object.description,
                       None, None, Some(name_with_location(weak_object)))
         IN  PushWeakFields(
                 [ext EXCEPT !.unresolved_field_definitions =
                      Append(@, <<fd, location_handler>>)],
                 Tail(order), node, field_map, name, weak_object, rhs_span, location_handler)

add_weak_type_definition(ext, name, type_alias, rhs_span, source_hash, source_module_path, description, should_generate_fields, location_handler) ==
    LET location == to_location(location_handler, rhs_span)
        weak_object == WeakObjectIr(name, source_hash, description)
        haste_module_name == FileStem(source_module_path)
        key == ModuleResolutionKey(haste_module_name, Named(name.item))
    IN  IF should_generate_fields THEN
            IF type_alias.k = "typelit" THEN
                LET field_map == get_object_fields(type_alias)
                    order == CHOOSE o \in Orderings(DOMAIN field_map) : TRUE
                IN  IF \E j \in 1..Len(type_alias.members) :
                           /\ type_alias.members[j].property
                           /\ type_alias.members[j].key_is_ident
                           /\ ~IsSome(type_alias.members[j].type_ann)
                    THEN Step(ext, Panic)
                    ELSE IF DOMAIN field_map # {}
                    THEN InsertStep(PushWeakFields(ext, order, type_alias, field_map, name,
                                                   weak_object, rhs_span, location_handler),
                                    key, weak_object)
                    ELSE Step(ext, Err(<<Diagnostic("ExpectedWeakObjectToHaveFields",
                                                    location)>>))
            ELSE Step(ext, Err(<<Diagnostic("ExpectedTypeAliasToBeObject", location)>>))
        ELSE InsertStep(ext, key, weak_object)

\* ------------------------------------------------------------------------
\* extract_module_resolution
\* ------------------------------------------------------------------------
ModuleResolution(imports, exports) == [imports |-> imports, exports |-> exports]

ImportKey(src, specifier, location_handler, span) ==
    IF specifier.kind = "Named"
    THEN ModuleResolutionKey(src, Named(IF IsSome(specifier.imported)
                                         THEN Unwrap(specifier.imported)
                                         ELSE specifier.local))
    ELSE IF specifier.kind = "Default" THEN ModuleResolutionKey(src, Default)
    ELSE ModuleResolutionKey(src, Namespace(to_location(location_handler, span)))

RECURSIVE ExtendImports(_, _, _, _, _)
ExtendImports(imports, item, i, j, location_handler) ==
    IF j > Len(item.specifiers) THEN imports
    ELSE ExtendImports(
             MapInsert(imports, item.specifiers[j].local,
                       ImportKey(item.src, item.specifiers[j], location_handler,
                                 <<i, "specifier", j>>)),
             item, i, j + 1, location_handler)

RECURSIVE ModuleItems(_, _, _, _)
ModuleItems(body, i, current_module, acc) ==
    IF i > Len(body) THEN acc
    ELSE IF body[i].k = "import"
    THEN ModuleItems(body, i + 1, current_module,
                     ModuleResolution(ExtendImports(acc.imports, body[i], i, 1,
                                                    current_module),
                                      acc.exports))
    ELSE IF body[i].k = "export_alias"
    THEN ModuleItems(body, i + 1, current_module,
                     ModuleResolution(acc.imports,
                                      MapInsert(acc.exports, body[i].id,
                                                ModuleResolutionKey(current_module,
                                                                    Named(body[i].id)))))
    ELSE ModuleItems(body, i + 1, current_module, acc)

extract_module_resolution(body, source_location) ==
    ModuleItems(body, 1, source_location, ModuleResolution(<<>>, <<>>))

\* ------------------------------------------------------------------------
\* errors::try_all over results already produced in order
\* ------------------------------------------------------------------------
RECURSIVE CollectErrors(_)
CollectErrors(results) ==
    IF results = <<>> THEN <<>>
    ELSE (IF IsErr(Head(results)) THEN Head(results).errs ELSE <<>>)
             \o CollectErrors(Tail(results))

try_all(results) ==
    IF \E j \in 1..Len(results) : results[j] = Panic THEN Panic
    ELSE IF CollectErrors(results) = <<>> THEN Ok(TRUE)
    ELSE Err(CollectErrors(results))

\* ------------------------------------------------------------------------
\* TSRelayResolverExtractor::parse_document
\* ------------------------------------------------------------------------
\* A pending file: its path, its text, and what the parsers make of the text.
SourceFile(path, body) ==
    [path |-> path, text |-> path, syntax_ok |-> TRUE, graphql_ok |-> TRUE, body |-> body,
     fragment_definitions |-> <<>>]

is_field_definition(name_str) == is_lowercase_initial(name_str) \/ contains_dot(name_str)

\* Mutant: the fields of a weak object are deferred when it is registered.
RegisterExtracted_with_fields(ext, file, i, docblock, description, extracted_graphql, module_resolution, location_handler) ==
    LET source_hash == ResolverSourceHash(file.text)
        name == IF IsSome(docblock.field_value)
                THEN WithLocation(Unwrap(docblock.field_value),
                                  Location(location_handler, <<i, "comment", "RelayResolver">>))
                ELSE extracted_graphql.field_name
    IN  IF extracted_graphql.data = "Strong" THEN
            IF is_field_definition(name.item) THEN
                LET entity_name ==
                        IF IsSome(extracted_graphql.entity_type)
                        THEN extract_entity_name(Unwrap(extracted_graphql.entity_type),
                                                 <<i, "param", 1, "type">>, location_handler)
                        ELSE Ok(None)
                IN  IF ~IsOk(entity_name) THEN Step(ext, entity_name)
                    ELSE add_field_definition(
                             ext, module_resolution, file.fragment_definitions,
                             UnresolvedTSFieldDefinition(
                                 IF IsSome(extracted_graphql.entity_type)
                                 THEN Some(entity_name.v) ELSE None,
                                 name, extracted_graphql.return_type,
                                 extracted_graphql.return_span, extracted_graphql.arguments,
                                 <<i, "param", 2, "type">>, source_hash,
                                 extracted_graphql.is_live, description, docblock.deprecated,
                                 None, None),
                             location_handler)
            ELSE add_type_definition(ext, module_resolution, name,
                                     extracted_graphql.return_type,
                                     extracted_graphql.return_span, source_hash,
                                     extracted_graphql.is_live, description, location_handler)
        ELSE add_weak_type_definition(ext, name, extracted_graphql.type_alias,
                                      <<i, "alias", "type">>, source_hash, file.path,
                                      description, TRUE, location_handler)

\* The match on the extracted declaration (lines 591-662).
RegisterExtracted(ext, file, i, docblock, description, extracted_graphql, module_resolution, location_handler) ==
    LET source_hash == ResolverSourceHash(file.text)
        name == IF IsSome(docblock.field_value)
                THEN WithLocation(Unwrap(docblock.field_value),
                                  Location(location_handler, <<i, "comment", "RelayResolver">>))
                ELSE extracted_graphql.field_name
    IN  IF extracted_graphql.data = "Strong" THEN
            IF is_field_definition(name.item) THEN
                LET entity_name ==
                        IF IsSome(extracted_graphql.entity_type)
                        THEN extract_entity_name(Unwrap(extracted_graphql.entity_type),
                                                 <<i, "param", 1, "type">>, location_handler)
                        ELSE Ok(None)
                IN  IF ~IsOk(entity_name) THEN Step(ext, entity_name)
                    ELSE add_field_definition(
                             ext, module_resolution, file.fragment_definitions,
                             UnresolvedTSFieldDefinition(
                                 IF IsSome(extracted_graphql.entity_type)
                                 THEN Some(entity_name.v) ELSE None,
                                 name, extracted_graphql.return_type,
                                 extracted_graphql.return_span, extracted_graphql.arguments,
                                 <<i, "param", 2, "type">>, source_hash,
                                 extracted_graphql.is_live, description, docblock.deprecated,
                                 None, None),
                             location_handler)
            ELSE add_type_definition(ext, module_resolution, name,
                                     extracted_graphql.return_type,
                                     extracted_graphql.return_span, source_hash,
                                     extracted_graphql.is_live, description, location_handler)
        ELSE add_weak_type_definition(ext, name, extracted_graphql.type_alias,
                                      <<i, "alias", "type">>, source_hash, file.path,
                                      description, FALSE, location_handler)

\* The body of the closure for statement i (lines 553-665).
ScanStatement(ext, file, i, module_resolution, location_handler) ==
    LET statement == file.body[i]
        docblock == Unwrap(statement.comment)
        at(part) == Location(location_handler, <<i, "comment", part>>)
        description == IF IsSome(docblock.description)
                       THEN Some(WithLocation(Unwrap(docblock.description),
                                              at("description")))
                       ELSE None
    IN  IF ~IsSome(statement.comment) THEN Step(ext, Ok(TRUE))
        ELSE IF ~docblock.resolver THEN Step(ext, Ok(TRUE))
        ELSE IF ~docblock.docblock_ok
        THEN Step(ext, Err(<<Diagnostic("DocblockParseError", at("docblock"))>>))
        ELSE IF ~docblock.has_resolver_field THEN Step(ext, Panic)
        ELSE IF ~docblock.description_ok
        THEN Step(ext, Err(<<Diagnostic("DescriptionError", at("description"))>>))
        ELSE With(extract_graphql_types(statement, i, location_handler),
                  LAMBDA extracted_graphql :
                      IF ~IsOk(extracted_graphql) THEN Step(ext, extracted_graphql)
                      ELSE RegisterExtracted(ext, file, i, docblock, description,
                                             extracted_graphql.v, module_resolution,
                                             location_handler))

\* Mutant: after a failing statement the remaining statements are skipped.
StatementClosure_skip_after_error(acc, file, i, module_resolution, location_handler) ==
    IF \E j \in 1..Len(acc.results) : ~IsOk(acc.results[j])
    THEN acc
    ELSE With(ScanStatement(acc.ext, file, i, module_resolution, location_handler),
              LAMBDA step : [ext |-> step.ext, results |-> Append(acc.results, step.result)])

\* One item of the iterator handed to try_all (line 552): the closure runs on
\* the state its predecessors left, unless one of them aborted.
StatementClosure(acc, file, i, module_resolution, location_handler) ==
    IF \E j \in 1..Len(acc.results) : acc.results[j] = Panic
    THEN acc
    ELSE With(ScanStatement(acc.ext, file, i, module_resolution, location_handler),
              LAMBDA step : [ext |-> step.ext, results |-> Append(acc.results, step.result)])

RECURSIVE ScanStatements(_, _, _, _, _)
ScanStatements(acc, file, i, module_resolution, location_handler) ==
    IF i > Len(file.body) THEN acc
    ELSE ScanStatements(StatementClosure(acc, file, i, module_resolution, location_handler),
                        file, i + 1, module_resolution, location_handler)

\* The extractor (self) and the outcome of a call on it.
TSRelayResolverExtractor_new ==
    [type_definitions |-> <<>>, unresolved_field_definitions |-> <<>>,
     resolved_field_definitions |-> <<>>, module_resolutions |-> <<>>,
     custom_scalar_map |-> <<>>, location_handler |-> None]

Call(self, result) == [self |-> self, result |-> result]

\* Mutant: the location handler is recorded before the module is parsed.
parse_document_handler_first(self, file) ==
    LET location_handler == file.path
        module_resolution == extract_module_resolution(file.body, location_handler)
    IN  IF ~file.syntax_ok
        THEN Call([self EXCEPT !.location_handler = Some(location_handler)], Err(<<Diagnostic("SyntaxError",
                                         to_location(location_handler, <<"syntax">>))>>))
        ELSE With(ScanStatements(
                      [ext |-> ExtState(self.type_definitions,
                                        self.unresolved_field_definitions),
                       results |-> <<>>],
                      file, 1, module_resolution, location_handler),
                  LAMBDA scan :
                      Call([self EXCEPT
                              !.type_definitions = scan.ext.type_definitions,
                              !.unresolved_field_definitions =
                                  scan.ext.unresolved_field_definitions,
                              !.module_resolutions =
                                  MapInsert(@, location_handler, module_resolution),
                              !.location_handler = Some(location_handler)],
                           try_all(scan.results)))

parse_document(self, file) ==
    LET location_handler == file.path
        module_resolution == extract_module_resolution(file.body, location_handler)
    IN  IF ~file.syntax_ok
        THEN Call(self, Err(<<Diagnostic("SyntaxError",
                                         to_location(location_handler, <<"syntax">>))>>))
        ELSE With(ScanStatements(
                      [ext |-> ExtState(self.type_definitions,
                                        self.unresolved_field_definitions),
                       results |-> <<>>],
                      file, 1, module_resolution, location_handler),
                  LAMBDA scan :
                      Call([self EXCEPT
                              !.type_definitions = scan.ext.type_definitions,
                              !.unresolved_field_definitions =
                                  scan.ext.unresolved_field_definitions,
                              !.module_resolutions =
                                  MapInsert(@, location_handler, module_resolution),
                              !.location_handler = Some(location_handler)],
                           try_all(scan.results)))

\* ------------------------------------------------------------------------
\* TSRelayResolverExtractor::resolve
\* ------------------------------------------------------------------------
\* crate::semantic_non_null_levels_to_directive
semantic_non_null_levels_to_directive(levels, location) ==
    IF levels = <<>> THEN None ELSE Some([levels |-> levels, location |-> location])

\* Mutant: only a strong object can own a field.
FieldOwner_strong_only(self, field, module_resolution) ==
    IF IsSome(field.entity_type) THEN Ok(Unwrap(field.entity_type))
    ELSE IF IsSome(field.entity_name) THEN
        LET entity_name == Unwrap(field.entity_name)
            key == ModuleResolution_get(module_resolution, entity_name.item)
            definition == MapGet(self.type_definitions, Unwrap(key))
        IN  IF ~IsSome(key)
            THEN Err(<<Diagnostic("ExpectedFlowDefinitionForType", entity_name.location)>>)
            ELSE IF IsSome(definition) /\ Unwrap(definition).kind = "StrongObjectResolver"
            THEN Ok(name_with_location(Unwrap(definition)))
            ELSE Err(<<Diagnostic("ModuleNotFound", entity_name.location)>>)
    ELSE Ok(WithLocation("Query", field.field_name.location))

\* The owning type of a deferred field (lines 701-735).
FieldOwner(self, field, module_resolution) ==
    IF IsSome(field.entity_type) THEN Ok(Unwrap(field.entity_type))
    ELSE IF IsSome(field.entity_name) THEN
        LET entity_name == Unwrap(field.entity_name)
            key == ModuleResolution_get(module_resolution, entity_name.item)
            definition == MapGet(self.type_definitions, Unwrap(key))
        IN  IF ~IsSome(key)
            THEN Err(<<Diagnostic("ExpectedFlowDefinitionForType", entity_name.location)>>)
            ELSE IF IsSome(definition)
                    /\ Unwrap(definition).kind \in {"StrongObjectResolver", "WeakObjectType"}
            THEN Ok(name_with_location(Unwrap(definition)))
            ELSE Err(<<Diagnostic("ModuleNotFound", entity_name.location)>>)
    ELSE Ok(WithLocation("Query", field.field_name.location))

\* The TerseRelayResolverIr pushed for a deferred field (lines 757-799).
TerseRelayResolverIr(field, type_, arguments, translated) ==
    [field |-> [name |-> field.field_name.item,
                type_ |-> translated.type,
                arguments |-> arguments,
                description |-> field.description,
                span |-> field.field_name.location.span],
     type_ |-> type_,
     root_fragment |-> IF IsSome(field.root_fragment)
                       THEN Some(Unwrap(field.root_fragment).fragment) ELSE None,
     location |-> field.field_name.location,
     deprecated |-> field.deprecated,
     live |-> field.is_live,
     fragment_arguments |-> IF IsSome(field.root_fragment)
                            THEN Some(Unwrap(field.root_fragment).arguments) ELSE None,
     source_hash |-> field.source_hash,
     semantic_non_null |->
         semantic_non_null_levels_to_directive(translated.levels,
                                               field.field_name.location)]

\* The arguments of a deferred field and their check against the arguments
\* of the root fragment (lines 736-756).
FieldArguments(self, field, module_resolution, location_handler) ==
    IF ~IsSome(field.arguments) THEN Ok(None)
    ELSE Try(ts_type_to_field_arguments(self.custom_scalar_map, Unwrap(field.arguments),
                                        field.arguments_span, module_resolution,
                                        self.type_definitions, location_handler),
             LAMBDA field_arguments :
                 IF IsSome(field.root_fragment)
                 THEN Try(validate_fragment_arguments(
                              location_handler, field_arguments,
                              Unwrap(field.root_fragment).fragment.location.source,
                              Unwrap(field.root_fragment).arguments),
                          LAMBDA valid : Ok(Some(field_arguments)))
                 ELSE Ok(Some(field_arguments)))

\* Mutant: the return type of a field is translated without semantic
\* non-null tracking.
ResolveField_without_tracking(self, entry, location_handler) ==
    LET field == entry[1]
        source_location == entry[2]
        found == MapGet(self.module_resolutions, source_location)
        module_resolution == Unwrap(found)
    IN  IF ~IsSome(found)
        THEN Err(<<Diagnostic("UnexpectedFailedToFindModuleResolution",
                              field.field_name.location)>>)
        ELSE Try(FieldOwner(self, field, module_resolution), LAMBDA type_ :
             Try(FieldArguments(self, field, module_resolution, location_handler),
                 LAMBDA arguments :
             Try(return_type_to_type_annotation(
                     self.custom_scalar_map, field.return_type, field.return_span,
                     module_resolution, self.type_definitions, FALSE, location_handler),
                 LAMBDA translated :
                     Ok(TerseRelayResolverIr(field, type_, arguments, translated)))))

\* The body of the closure for one deferred entry (lines 688-801): the
\* TerseRelayResolverIr it pushes, or its diagnostics, or an abort.
ResolveField(self, entry, location_handler) ==
    LET field == entry[1]
        source_location == entry[2]
        found == MapGet(self.module_resolutions, source_location)
        module_resolution == Unwrap(found)
    IN  IF ~IsSome(found)
        THEN Err(<<Diagnostic("UnexpectedFailedToFindModuleResolution",
                              field.field_name.location)>>)
        ELSE Try(FieldOwner(self, field, module_resolution), LAMBDA type_ :
             Try(FieldArguments(self, field, module_resolution, location_handler),
                 LAMBDA arguments :
             Try(return_type_to_type_annotation(
                     self.custom_scalar_map, field.return_type, field.return_span,
                     module_resolution, self.type_definitions, TRUE, location_handler),
                 LAMBDA translated :
                     Ok(TerseRelayResolverIr(field, type_, arguments, translated)))))

\* Mutant: after a failing entry the remaining entries are skipped.
ResolveClosure_skip_after_error(acc, self, entry, location_handler) ==
    IF \E j \in 1..Len(acc.results) : ~IsOk(acc.results[j])
    THEN acc
    ELSE With(ResolveField(self, entry, location_handler),
              LAMBDA r : [resolved |-> IF IsOk(r) THEN Append(acc.resolved, r.v)
                                       ELSE acc.resolved,
                          results |-> Append(acc.results, IF IsOk(r) THEN Ok(TRUE) ELSE r)])

\* One item of the iterator handed to try_all (line 685).
ResolveClosure(acc, self, entry, location_handler) ==
    IF \E j \in 1..Len(acc.results) : acc.results[j] = Panic
    THEN acc
    ELSE With(ResolveField(self, entry, location_handler),
              LAMBDA r : [resolved |-> IF IsOk(r) THEN Append(acc.resolved, r.v)
                                       ELSE acc.resolved,
                          results |-> Append(acc.results, IF IsOk(r) THEN Ok(TRUE) ELSE r)])

RECURSIVE ResolveFields(_, _, _, _)
ResolveFields(acc, self, j, location_handler) ==
    IF j > Len(self.unresolved_field_definitions) THEN acc
    ELSE ResolveFields(ResolveClosure(acc, self, self.unresolved_field_definitions[j],
                                      location_handler),
                       self, j + 1, location_handler)

\* The values of the type-definition table (into_values: the order of the
\* hash map is not part of the value).
MapValues(m) == {m[key] : key \in DOMAIN m}

resolve(self) ==
    IF ~IsSome(self.location_handler) THEN Call(self, Panic)
    ELSE With(ResolveFields([resolved |-> self.resolved_field_definitions,
                             results |-> <<>>],
                            self, 1, Unwrap(self.location_handler)),
              LAMBDA done :
                  Call([self EXCEPT !.resolved_field_definitions = done.resolved,
                                    !.unresolved_field_definitions = <<>>],
                       Try(try_all(done.results),
                           LAMBDA unit : Ok([objects |-> MapValues(self.type_definitions),
                                             fields |-> done.resolved]))))

\* ------------------------------------------------------------------------
\* Inputs of custom_extract_resolver
\* ------------------------------------------------------------------------
\* Longest list of declarations after the imports of a generated file.
MaxStmts == 2

PathA == ModulePath("src", "a", "ts")

PathB == ModulePath("src", "b", "ts")

UserModule == ModulePath(".", "User", "")

\* import { TUser, TUser as User } from './User'
ImportTUser ==
    Import(UserModule, <<ImportSpecifier("Named", "TUser", None),
                         ImportSpecifier("Named", "User", Some("TUser"))>>)

\* The imports every generated file starts with: a named import that some
\* file registers, one that no file registers, a namespace import and the key
\* type of a fragment.
Imports ==
    <<ImportTUser,
      Import(ModulePath(".", "Ghost", ""), <<ImportSpecifier("Named", "TGhost", None)>>),
      Import(ModulePath(".", "ns", ""), <<ImportSpecifier("Namespace", "NS", None)>>),
      Import(ModulePath(".", "UserFrag", "graphql"),
             <<ImportSpecifier("Named", "UserFrag$key", None)>>)>>

\* The docblock `@RelayResolver` without a value or a description.
Marked == Some(Comment(None, None))

\* export function User(): TUser, which registers a strong object
StrongUser == ExportFn(Marked, "User", <<>>, Some(Ref("TUser")))

\* export function name(user: TUser): string, a field on the imported type
FieldName == ExportFn(Marked, "name", <<Param(TRUE, Some(Ref("TUser")))>>, Some(Kw("string")))

\* export type Weak = { id: string }
WeakAlias == ExportTypeAlias(Marked, "Weak", TypeLit(<<Property("id", Some(Kw("string")))>>))

Statements ==
    {StrongUser,
     \* a second strong object on the same imported type
     ExportFn(Marked, "Admin", <<>>, Some(Ref("TUser"))),
     \* a strong object on a namespace import
     ExportFn(Marked, "Space", <<>>, Some(Ref("NS"))),
     FieldName,
     \* a field on a type that no file registers
     ExportFn(Marked, "nick", <<Param(TRUE, Some(Ref("TGhost")))>>, Some(Kw("string"))),
     \* a field whose return type has no translation
     ExportFn(Marked, "age", <<Param(TRUE, Some(Ref("TUser")))>>, Some(Kw("any"))),
     \* a field without entity (on Query)
     ExportFn(Marked, "hello", <<>>, Some(Kw("string"))),
     \* a field on a type that is not in the module index
     ExportFn(Marked, "greet", <<Param(TRUE, Some(Ref("Missing")))>>, Some(Kw("string"))),
     \* a field with arguments that returns a list
     ExportFn(Marked, "friends",
              <<Param(TRUE, Some(Ref("TUser"))),
                Param(TRUE, Some(TypeLit(<<Property("first", Some(Kw("number")))>>)))>>,
              Some(Generic("Array", <<Kw("string")>>))),
     \* a field whose return type is null | undefined
     ExportFn(Marked, "boss", <<>>, Some(UnionType(<<Kw("null"), Kw("undefined")>>))),
     \* a field on the key type of a fragment
     ExportFn(Marked, "getName", <<Param(TRUE, Some(Ref("UserFrag$key")))>>,
              Some(Kw("string"))),
     \* a function without return type
     ExportFn(Marked, "hello", <<>>, None),
     WeakAlias,
     \* a marked statement that is not an export, and a marked exported class
     PlainStatement(Marked),
     ExportOther(Marked),
     \* an export without a leading comment
     ExportFn(None, "helper", <<>>, None),
     \* the text contains the marker, the parsed docblock has no such field
     PlainStatement(Some([Comment(None, None) EXCEPT !.has_resolver_field = FALSE]))}

\* The fragment the embedded GraphQL of a generated file defines.
UserFrag ==
    FragmentDefinition("UserFrag", "User", ModulePath("src", "a", "embedded"), Ok(None))

\* The files at PathA: the imports, then up to MaxStmts declarations.
GeneratedFiles ==
    {[SourceFile(PathA, Imports \o body) EXCEPT !.fragment_definitions = <<UserFrag>>] :
        body \in SeqsUpTo(Statements, MaxStmts) \ {<<>>}}

\* The docblock `@RelayResolver <name>`.
MarkedAs(name) == Some(Comment(Some(name), None))

\* Declarations of the documented scenarios.
ScenarioStatements ==
    {StrongUser,
     WeakAlias,
     \* export function getName(user: User): string
     ExportFn(Marked, "getName", <<Param(TRUE, Some(Ref("User")))>>, Some(Kw("string"))),
     \* @RelayResolver Client.greeting on a function with an entity parameter
     ExportFn(MarkedAs("Client.greeting"), "Greeting", <<Param(TRUE, Some(Ref("TUser")))>>,
              Some(Kw("string"))),
     \* @RelayResolver client.greeting on a function without parameters
     ExportFn(MarkedAs("client.greeting"), "greeting", <<>>, Some(Kw("string"))),
     \* export type Viewer = TUser
     ExportTypeAlias(Marked, "Viewer", Ref("TUser")),
     \* export type Empty = {}
     ExportTypeAlias(Marked, "Empty", TypeLit(<<>>)),
     \* export function viewer(): Weak
     ExportFn(Marked, "viewer", <<>>, Some(Ref("Weak")))}

\* The same module as src/a.ts, named by its file stem alone.
PathStem == ModulePath("", "a", "")

\* The scenario files: the imports, then up to MaxStmts scenario declarations,
\* at a path with directory and extension and at a path without.
ScenarioFiles ==
    {SourceFile(path, Imports \o body) :
        path \in {PathA, PathStem}, body \in SeqsUpTo(ScenarioStatements, MaxStmts) \ {<<>>}}

\* export function label(weak: Weak): string, a field on the weak object
FieldLabel == ExportFn(Marked, "label", <<Param(TRUE, Some(Ref("Weak")))>>, Some(Kw("string")))

\* A file with a field of every kind of owner: on a strong object, on a weak
\* object, on the key type of a fragment, without entity, and on a type that
\* no file registers.
OwnersFile ==
    [SourceFile(PathStem,
                Imports \o <<StrongUser, WeakAlias, FieldName, FieldLabel,
                             ExportFn(Marked, "getName",
                                      <<Param(TRUE, Some(Ref("UserFrag$key")))>>,
                                      Some(Kw("string"))),
                             ExportFn(Marked, "hello", <<>>, Some(Kw("string"))),
                             ExportFn(Marked, "nick", <<Param(TRUE, Some(Ref("TGhost")))>>,
                                      Some(Kw("string")))>>)
        EXCEPT !.fragment_definitions = <<UserFrag>>]

\* The files at PathB: one that registers the imported type, one that defers
\* a field on it, one the parser rejects.
OtherFiles ==
    {SourceFile(PathB, <<ImportTUser, StrongUser>>),
     SourceFile(PathB, <<ImportTUser, FieldName>>),
     [SourceFile(PathB, <<>>) EXCEPT !.syntax_ok = FALSE]}

\* A file whose embedded GraphQL does not parse.
BrokenGraphQL == [SourceFile(PathB, <<ImportTUser, FieldName>>) EXCEPT !.graphql_ok = FALSE]

\* crate::invert_custom_scalar_map: the configuration is given by what the
\* inversion makes of it.
invert_custom_scalar_map(scalar_types) == scalar_types

NoCustomScalars == Ok(<<>>)

UserScalar == Ok(MapInsert(<<>>, CustomTypePath("TUser", UserModule), "UserScalar"))

\* Custom scalars given by import path (TUser of ./User) and by bare name
\* (Missing, which no file imports, and TGhost, which every file imports).
MixedScalars ==
    Ok(MapInsert(MapInsert(UserScalar.v, CustomTypeName("Missing"), "MissingScalar"),
                 CustomTypeName("TGhost"), "GhostScalar"))

ConflictingScalars == Err(<<Diagnostic("CustomScalarConflict", Location("config", <<>>))>>)

\* ------------------------------------------------------------------------
\* custom_extract_resolver as actions
\* ------------------------------------------------------------------------
SetExtractInput(scalar_types, pending) ==
    /\ custom_scalar_types = scalar_types
    /\ files_to_process = pending

ExtInit ==
    /\ \/ \E x \in GeneratedFiles, scalar_types \in {NoCustomScalars, UserScalar} :
            SetExtractInput(scalar_types, <<x>>)
       \/ \E x \in ScenarioFiles \cup {OwnersFile} : SetExtractInput(NoCustomScalars, <<x>>)
       \/ \E x \in GeneratedFiles, y \in OtherFiles :
            \/ SetExtractInput(NoCustomScalars, <<x, y>>)
            \/ SetExtractInput(NoCustomScalars, <<y, x>>)
       \/ \E pending \in {<<>>} \cup {<<y>> : y \in OtherFiles \cup {BrokenGraphQL}},
             scalar_types \in {NoCustomScalars, ConflictingScalars} :
            SetExtractInput(scalar_types, pending)
    /\ extractor = TSRelayResolverExtractor_new
    /\ processed = 0
    /\ errors = <<>>
    /\ cer_result = None
    /\ last_call = [op |-> "new"]
    /\ cer_pc = "start"
    /\ GeneratorIdle
    /\ TranslatorIdle

\* Lines 33-48: set_custom_scalar_map and the early return.
CER_SetCustomScalarMap ==
    /\ cer_pc = "start"
    /\ LET inverted == invert_custom_scalar_map(custom_scalar_types)
       IN  IF IsErr(inverted)
           THEN /\ errors' = errors \o inverted.errs
                /\ cer_result' = Some(Err(errors'))
                /\ cer_pc' = "returned"
                /\ UNCHANGED extractor
           ELSE /\ extractor' = [extractor EXCEPT !.custom_scalar_map = inverted.v]
                /\ cer_pc' = "loop"
                /\ UNCHANGED <<errors, cer_result>>
    /\ last_call' = [op |-> "set_custom_scalar_map"]
    /\ UNCHANGED <<custom_scalar_types, files_to_process, processed>>
    /\ UNCHANGED <<gen_vars, tr_vars>>

\* Lines 50-59: one iteration of the loop over the pending files.
CER_ParseDocument ==
    /\ cer_pc = "loop"
    /\ processed < Len(files_to_process)
    /\ \E file \in {files_to_process[processed + 1]} :
       \E call \in {parse_document(extractor, file)} :
           IF ~file.graphql_ok \/ call.result = Panic
           THEN /\ cer_pc' = "panicked"
                /\ last_call' = [op |-> "parse_document", file |-> file,
                                 before |-> extractor, result |-> Panic]
                /\ UNCHANGED <<extractor, processed, errors>>
           ELSE /\ extractor' = call.self
                /\ errors' = IF IsErr(call.result) THEN errors \o call.result.errs
                             ELSE errors
                /\ processed' = processed + 1
                /\ last_call' = [op |-> "parse_document", file |-> file,
                                 before |-> extractor, result |-> call.result]
                /\ UNCHANGED cer_pc
    /\ UNCHANGED <<custom_scalar_types, files_to_process, cer_result>>
    /\ UNCHANGED <<gen_vars, tr_vars>>

\* Lines 61-76: resolve and the result of custom_extract_resolver.
CER_Resolve ==
    /\ cer_pc = "loop"
    /\ processed = Len(files_to_process)
    /\ \E call \in {resolve(extractor)} :
           /\ last_call' = [op |-> "resolve", before |-> extractor, result |-> call.result]
           /\ extractor' = call.self
           /\ IF call.result = Panic
              THEN /\ cer_pc' = "panicked"
                   /\ UNCHANGED <<errors, cer_result>>
              ELSE IF IsOk(call.result)
              THEN /\ cer_pc' = "returned"
                   /\ cer_result' = Some(Ok([objects |-> call.result.v.objects,
                                             fields |-> call.result.v.fields]))
                   /\ UNCHANGED errors
              ELSE /\ cer_pc' = "returned"
                   /\ errors' = errors \o call.result.errs
                   /\ cer_result' = Some(Err(errors'))
    /\ UNCHANGED <<custom_scalar_types, files_to_process, processed>>
    /\ UNCHANGED <<gen_vars, tr_vars>>

ExtNext ==
    \/ CER_SetCustomScalarMap
    \/ CER_ParseDocument
    \/ CER_Resolve

SpecExtract == ExtInit /\ [][ExtNext]_vars

\* ------------------------------------------------------------------------
\* Sequences of insertions into the type-definition table
\* ------------------------------------------------------------------------
TableKeys ==
    {ModuleResolutionKey(UserModule, Named("TUser")),
     ModuleResolutionKey(UserModule, Default),
     ModuleResolutionKey(FileStem(PathA), Named("Weak"))}

TableNames ==
    {WithLocation(n, Location(path, <<1, "ident">>)) :
        n \in {"User", "Admin"}, path \in {PathA, PathB}}

TableData ==
    {StrongObjectIr(name, ResolverSourceHash(name.location.source), None, None) :
        name \in TableNames}
    \cup {WeakObjectIr(name, ResolverSourceHash(name.location.source), None) :
             name \in TableNames}

InsertInit ==
    /\ custom_scalar_types = NoCustomScalars
    /\ files_to_process = <<>>
    /\ extractor = TSRelayResolverExtractor_new
    /\ processed = 0
    /\ errors = <<>>
    /\ cer_result = None
    /\ last_call = [op |-> "new"]
    /\ cer_pc = "idle"
    /\ GeneratorIdle
    /\ TranslatorIdle

\* self.insert_type_definition(key, data)
InsertTypeDefinition ==
    /\ \E key \in TableKeys, data \in TableData :
         LET inserted == insert_type_definition(extractor.type_definitions, key, data)
         IN  /\ extractor' = [extractor EXCEPT
                                !.type_definitions = inserted.type_definitions]
             /\ last_call' = [op |-> "insert_type_definition", key |-> key, data |-> data,
                              before |-> extractor, result |-> inserted.result]
    /\ UNCHANGED <<custom_scalar_types, files_to_process, processed, errors, cer_result,
                   cer_pc>>
    /\ UNCHANGED <<gen_vars, tr_vars>>

InsertNext == InsertTypeDefinition

SpecInsert == InsertInit /\ [][InsertNext]_vars

\* ------------------------------------------------------------------------
\* return_type_to_type_annotation on its own
\* ------------------------------------------------------------------------
\* Deepest nesting of generics and unions in a translated annotation.
MaxDepth == 2

GenericNames == {"Array", "ReadOnlyArray", "RelayResolverValue", "IdOf", "Promise"}

NullMarkers == {Kw("null"), Kw("undefined")}

\* The annotations without a nested annotation that varies.
BaseTypes ==
    {Kw("string"), Kw("number"), Kw("boolean"), Kw("any"), Kw("null"), LitBool,
     LitStr("User"), Ref("Weak"), Ref("TUser"), Ref("TGhost"), Ref("Missing"),
     QualifiedRef("NS.T"), Generic("Map", <<Kw("string"), Kw("number")>>),
     IntersectionType(<<Ref("Weak"), Ref("Weak")>>),
     UnionType(<<Kw("null"), Kw("number"), Kw("undefined")>>)}

RECURSIVE TsTypes(_)
TsTypes(depth) ==
    IF depth = 0 THEN BaseTypes
    ELSE LET inner == TsTypes(depth - 1)
         IN  inner
             \cup {Generic(name, <<type_ann>>) : name \in GenericNames, type_ann \in inner}
             \cup {UnionType(<<type_ann, marker>>) : type_ann \in inner, marker \in NullMarkers}
             \cup {UnionType(<<marker, type_ann>>) : type_ann \in inner, marker \in NullMarkers}

\* The extractor after the scan of a module `a` that registers the strong
\* object User for the imported TUser and exports the weak object Weak: its
\* table and the module index of the file are what the translator is given.
TranslatorFixture ==
    parse_document(TSRelayResolverExtractor_new,
                   SourceFile(PathStem, Imports \o <<StrongUser, WeakAlias>>)).self

TranslateInit ==
    /\ \E custom_scalar_map \in {NoCustomScalars.v, UserScalar.v, MixedScalars.v},
          return_type \in TsTypes(MaxDepth), use_semantic_non_null \in BOOLEAN :
            translate_args = [custom_scalar_map |-> custom_scalar_map,
                              return_type |-> return_type,
                              use_semantic_non_null |-> use_semantic_non_null]
    /\ translate_result = None
    /\ HelpersIdle
    /\ GeneratorIdle
    /\ ExtractorIdle

\* The translation of translate_args.return_type, located at <<"ret">>.
Translation(custom_scalar_map, return_type, use_semantic_non_null) ==
    return_type_to_type_annotation(
        custom_scalar_map, return_type, <<"ret">>,
        TranslatorFixture.module_resolutions[PathStem], TranslatorFixture.type_definitions,
        use_semantic_non_null, PathStem)

Translate ==
    /\ translate_result = None
    /\ translate_result' = Some(Translation(translate_args.custom_scalar_map,
                                            translate_args.return_type,
                                            translate_args.use_semantic_non_null))
    /\ UNCHANGED <<translate_args, unwrap_args, unwrap_result, arguments_args,
                   arguments_result, gen_vars, ext_vars>>

TranslateNext == Translate

SpecTranslate == TranslateInit /\ [][TranslateNext]_vars

\* ------------------------------------------------------------------------
\* unwrap_nullable_type on its own
\* ------------------------------------------------------------------------
\* Most members of a union or intersection.
MaxMembers == 3

\* The members of a union or intersection.
MemberTypes == {Kw("null"), Kw("undefined"), Kw("string"), Kw("number"), Ref("Weak")}

UnwrapInputs ==
    MemberTypes
    \cup {UnionType(types) : types \in SeqsUpTo(MemberTypes, MaxMembers) \ {<<>>}}
    \cup {IntersectionType(types) : types \in SeqsUpTo(MemberTypes, MaxMembers) \ {<<>>}}

UnwrapInit ==
    /\ \E return_type \in UnwrapInputs : unwrap_args = Some(return_type)
    /\ unwrap_result = None
    /\ translate_args = <<>>
    /\ translate_result = <<>>
    /\ arguments_args = <<>>
    /\ arguments_result = <<>>
    /\ GeneratorIdle
    /\ ExtractorIdle

\* The call of unwrap_nullable_type on the annotation, located at <<"ret">>.
UnwrapNullableType ==
    /\ IsSome(unwrap_args)
    /\ unwrap_result = None
    /\ unwrap_result' = Some(unwrap_nullable_type(Unwrap(unwrap_args), <<"ret">>, PathStem))
    /\ UNCHANGED <<unwrap_args, translate_args, translate_result, arguments_args,
                   arguments_result, gen_vars, ext_vars>>

UnwrapNext == UnwrapNullableType

SpecUnwrap == UnwrapInit /\ [][UnwrapNext]_vars

\* ------------------------------------------------------------------------
\* ts_type_to_field_arguments on its own
\* ------------------------------------------------------------------------
\* Most members of the literal type of the second parameter.
MaxArgs == 3

\* The members of a literal type: properties with a type that translates
\* (non-optional, optional, a list, a weak object), with a type that does not,
\* without a type annotation, with a computed key, and a method signature.
ArgumentMembers ==
    {Property("first", Some(Kw("number"))),
     Property("after", Some(UnionType(<<Kw("string"), Kw("null")>>))),
     Property("ids", Some(Generic("Array", <<Kw("string")>>))),
     Property("where", Some(Ref("Weak"))),
     Property("bad", Some(Kw("any"))),
     Property("raw", None),
     [Property("computed", Some(Kw("string"))) EXCEPT !.key_is_ident = FALSE],
     [Property("method", None) EXCEPT !.property = FALSE]}

ArgumentInputs ==
    {Kw("string"), Ref("Weak"), Generic("Array", <<Kw("string")>>),
     UnionType(<<TypeLit(<<Property("first", Some(Kw("number")))>>), Kw("null")>>)}
    \cup {TypeLit(members) : members \in SeqsUpTo(ArgumentMembers, MaxArgs)}

ArgumentsInit ==
    /\ \E args_type \in ArgumentInputs : arguments_args = Some(args_type)
    /\ arguments_result = None
    /\ translate_args = <<>>
    /\ translate_result = <<>>
    /\ unwrap_args = <<>>
    /\ unwrap_result = <<>>
    /\ GeneratorIdle
    /\ ExtractorIdle

\* The call of ts_type_to_field_arguments on the annotation, located at
\* <<"args">>, with the table and the module index of TranslatorFixture.
TsTypeToFieldArguments ==
    /\ IsSome(arguments_args)
    /\ arguments_result = None
    /\ arguments_result' =
           Some(ts_type_to_field_arguments(
                    NoCustomScalars.v, Unwrap(arguments_args), <<"args">>,
                    TranslatorFixture.module_resolutions[PathStem],
                    TranslatorFixture.type_definitions, PathStem))
    /\ UNCHANGED <<arguments_args, translate_args, translate_result, unwrap_args,
                   unwrap_result, gen_vars, ext_vars>>

ArgumentsNext == TsTypeToFieldArguments

SpecArguments == ArgumentsInit /\ [][ArgumentsNext]_vars

\* ------------------------------------------------------------------------
\* Properties of the extraction
\* ------------------------------------------------------------------------
\* C7: an insertion never changes or removes an entry of the type-definition
\* table; an insertion for a key that is already present returns exactly one
\* diagnostic, located at the new definition and annotated once with the
\* location of the registered definition, and leaves the table as it was; an
\* insertion for a new key adds the definition under that key.
C7_FirstRegistrationSurvives ==
    last_call.op = "insert_type_definition" =>
        LET before == last_call.before.type_definitions
            after == extractor.type_definitions
            key == last_call.key
            data == last_call.data
            result == last_call.result
        IN  /\ \A k \in DOMAIN before : k \in DOMAIN after /\ after[k] = before[k]
            /\ key \in DOMAIN before =>
                 /\ IsErr(result)
                 /\ Len(result.errs) = 1
                 /\ result.errs[1].location = data.location
                 /\ Len(result.errs[1].annotations) = 1
                 /\ result.errs[1].annotations[1].location = before[key].location
                 /\ after = before
            /\ key \notin DOMAIN before =>
                 /\ IsOk(result)
                 /\ DOMAIN after = DOMAIN before \cup {key}
                 /\ after[key] = data

\* A key is inserted a second time, with a definition at another location.
C7_Witness ==
    /\ last_call.op = "insert_type_definition"
    /\ last_call.key \in DOMAIN last_call.before.type_definitions
    /\ last_call.data.location
           # last_call.before.type_definitions[last_call.key].location
    /\ Cardinality(DOMAIN extractor.type_definitions) >= 2

\* C8: when custom_extract_resolver returns and a parse_document call on a
\* pending file reported diagnostics (they are in `errors`), it returns Err
\* with the collected diagnostics.
C8_FailurePropagated ==
    (cer_pc = "returned" /\ errors # <<>>) =>
        /\ IsErr(Unwrap(cer_result))
        /\ Unwrap(cer_result).errs = errors

\* The results of the deferred entries of an extractor, each on its own.
EntryResults(self) ==
    [j \in 1..Len(self.unresolved_field_definitions) |->
        ResolveField(self, self.unresolved_field_definitions[j],
                     Unwrap(self.location_handler))]

\* C9: when resolve returns, it returns Err exactly when some deferred entry
\* fails, the returned diagnostics are those of every failing entry (one per
\* failing entry) and the entries that do not fail are all resolved, those
\* after a failing entry included.
C9_EveryDeferredFieldAttempted ==
    (last_call.op = "resolve" /\ last_call.result # Panic) =>
        LET self == last_call.before
            each == EntryResults(self)
            failing == {j \in DOMAIN each : IsErr(each[j])}
            passing == {j \in DOMAIN each : IsOk(each[j])}
            result == last_call.result
        IN  /\ IsErr(result) <=> failing # {}
            /\ IsErr(result) =>
                 /\ Len(result.errs) = Cardinality(failing)
                 /\ \A j \in failing :
                      /\ Len(each[j].errs) = 1
                      /\ each[j].errs[1] \in SeqToSet(result.errs)
            /\ Len(extractor.resolved_field_definitions) = Cardinality(passing)
            /\ \A j \in passing :
                 each[j].v \in SeqToSet(extractor.resolved_field_definitions)

\* resolve returned the diagnostics of two failing entries, with an entry
\* that resolves after the first failing one.
C9_Witness ==
    /\ last_call.op = "resolve"
    /\ IsErr(last_call.result)
    /\ LET each == EntryResults(last_call.before)
       IN  \E i, j, k \in DOMAIN each :
             /\ i < j /\ i < k /\ j # k
             /\ IsErr(each[i]) /\ IsErr(each[j]) /\ IsOk(each[k])
             /\ each[i].errs # each[j].errs

\* Statement i of the file of the last parse_document call, scanned on the
\* state the call started from.
ScannedAlone(i) ==
    ScanStatement(ExtState(last_call.before.type_definitions,
                           last_call.before.unresolved_field_definitions),
                  last_call.file, i,
                  extract_module_resolution(last_call.file.body, last_call.file.path),
                  last_call.file.path)

\* What a statement scanned alone registers: deferred entries and table keys.
DeferredBy(i) ==
    SeqToSet(ScannedAlone(i).ext.unresolved_field_definitions)
        \ SeqToSet(last_call.before.unresolved_field_definitions)

KeysBy(i) ==
    DOMAIN ScannedAlone(i).ext.type_definitions \ DOMAIN last_call.before.type_definitions

\* C10: when parse_document returns for a file that parses, every statement
\* that registers a deferred field or a type definition when scanned alone has
\* it registered after the call, whatever the statements before it did; the
\* diagnostics of every statement that fails alone are in the returned error;
\* and the module index of the file is recorded.
C10_ScanContinuesAfterDiagnostic ==
    (last_call.op = "parse_document" /\ last_call.file.syntax_ok
        /\ last_call.result # Panic) =>
        LET file == last_call.file
            result == last_call.result
        IN  /\ \A i \in 1..Len(file.body) :
                 /\ DeferredBy(i) \subseteq SeqToSet(extractor.unresolved_field_definitions)
                 /\ KeysBy(i) \subseteq DOMAIN extractor.type_definitions
                 /\ IsErr(ScannedAlone(i).result) =>
                      /\ IsErr(result)
                      /\ SeqToSet(ScannedAlone(i).result.errs) \subseteq SeqToSet(result.errs)
            /\ MapGet(extractor.module_resolutions, file.path)
                   = Some(extract_module_resolution(file.body, file.path))
            /\ extractor.location_handler = Some(file.path)

\* A statement fails and a later statement of the same file registers.
C10_Witness ==
    /\ last_call.op = "parse_document"
    /\ IsErr(last_call.result)
    /\ \E i, j \in 1..Len(last_call.file.body) :
         /\ i < j
         /\ IsErr(ScannedAlone(i).result)
         /\ DeferredBy(j) \cup KeysBy(j) # {}
         /\ DeferredBy(j) \subseteq SeqToSet(extractor.unresolved_field_definitions)
         /\ KeysBy(j) \subseteq DOMAIN extractor.type_definitions

\* All pending files scanned in the given order from a new extractor, then
\* one resolve: the call on the extractor after the last scan.
RECURSIVE ScanAll(_, _)
ScanAll(self, files) ==
    IF files = <<>> THEN self
    ELSE ScanAll(parse_document(self, Head(files)).self, Tail(files))

ResolveAfterScans(custom_scalar_map, files) ==
    resolve(ScanAll([TSRelayResolverExtractor_new EXCEPT
                        !.custom_scalar_map = custom_scalar_map], files))

\* The (field name, owning type name) pairs of resolved fields.
OwnerPairs(resolved) ==
    {<<resolved[j].field.name, resolved[j].type_.item>> : j \in 1..Len(resolved)}

\* The files that defer a field on the imported type, and those that register
\* a type for it.
DefersOnImported(file) ==
    \E i \in 1..Len(file.body) :
        /\ file.body[i].k = "export_fn"
        /\ Len(file.body[i].params) = 1
        /\ file.body[i].params[1].type_ann = Some(Ref("TUser"))
        /\ is_field_definition(file.body[i].ident)

RegistersImported(file) ==
    \E i \in 1..Len(file.body) :
        /\ file.body[i].k = "export_fn"
        /\ file.body[i].return_type = Some(Ref("TUser"))
        /\ ~is_field_definition(file.body[i].ident)

\* The pairs resolve leaves behind are those of every order of the pending
\* files.
SameOwnersInEveryOrder ==
    \A order \in Orderings(SeqToSet(files_to_process)) :
        OwnerPairs(ResolveAfterScans(extractor.custom_scalar_map, order)
                       .self.resolved_field_definitions)
            = OwnerPairs(extractor.resolved_field_definitions)

\* C11 as stated: after the pending files are scanned and resolve has run,
\* the set of (field name, owning type name) pairs is the same for every
\* order in which the same files could have been scanned.
C11_OwnersInEveryScanOrder ==
    (last_call.op = "resolve" /\ last_call.result # Panic) => SameOwnersInEveryOrder

\* C11, amended: the same, for pending files that register every key of the
\* type-definition table at most once (no scan reports a duplicate type
\* definition).
C11_OwnersInEveryScanOrderWithoutDuplicates ==
    (/\ last_call.op = "resolve"
     /\ last_call.result # Panic
     /\ \A j \in 1..Len(errors) : errors[j].kind # "DuplicateTypeDefinitions")
        => SameOwnersInEveryOrder

\* The file scanned first defers a field on a type that only the file scanned
\* second registers, and resolve gives the field that type as owner.
C11_Witness ==
    /\ last_call.op = "resolve"
    /\ IsOk(last_call.result)
    /\ Len(files_to_process) = 2
    /\ DefersOnImported(files_to_process[1])
    /\ ~RegistersImported(files_to_process[1])
    /\ RegistersImported(files_to_process[2])
    /\ <<"name", "User">> \in OwnerPairs(extractor.resolved_field_definitions)

\* resolve has returned after the scan of every pending file.
Resolved == last_call.op = "resolve" /\ last_call.result # Panic

\* The resolved field declarations and the type declarations that come from
\* the declaration named at the given span of statement i of a file.
FieldsAt(path, span) ==
    {j \in 1..Len(extractor.resolved_field_definitions) :
        extractor.resolved_field_definitions[j].location = Location(path, span)}

TypesAt(path, i) ==
    {key \in DOMAIN extractor.type_definitions :
        /\ extractor.type_definitions[key].location.source = path
        /\ extractor.type_definitions[key].location.span[1] = i}

\* The statements of a pending file that are the given declaration.
StatementsLike(file, statement) == {i \in 1..Len(file.body) : file.body[i] = statement}

\* export function getName(user: User): string, with the resolver marker
GetNameOfUser ==
    ExportFn(Marked, "getName", <<Param(TRUE, Some(Ref("User")))>>, Some(Kw("string")))

\* The imported type User resolves to is registered.
UserRegistered == ModuleResolutionKey(UserModule, Named("TUser")) \in DOMAIN extractor.type_definitions

\* The field declaration of getName, with the given field type and semantic
\* non-null directive: one field declaration, no type declaration, owner User.
GetNameYields(path, i, field_type, levels) ==
    /\ Cardinality(FieldsAt(path, <<i, "ident">>)) = 1
    /\ TypesAt(path, i) = {}
    /\ \A j \in FieldsAt(path, <<i, "ident">>) :
         LET ir == extractor.resolved_field_definitions[j]
         IN  /\ ir.field.name = "getName"
             /\ ir.type_.item = extractor.type_definitions[
                                    ModuleResolutionKey(UserModule, Named("TUser"))].type_name
             /\ ir.field.type_ = field_type
             /\ ir.semantic_non_null
                    = semantic_non_null_levels_to_directive(
                          levels, Location(path, <<i, "ident">>))

\* C12 as stated: the resolver function getName(user: User): string, User
\* resolving to a registered type, yields after resolve one field declaration
\* and no type declaration, owned by that type, of field type String!.
C12_GetNameIsNonNullString ==
    (Resolved /\ UserRegistered) =>
        \A file \in SeqToSet(files_to_process) :
            \A i \in StatementsLike(file, GetNameOfUser) :
                GetNameYields(file.path, i,
                              NonNullTypeAnnotation(NamedTypeAnnotation("String", <<i, "ret">>),
                                                    <<i, "ret">>),
                              <<>>)

\* C12, amended: the field type is the bare String, and the field carries the
\* semantic non-null directive with level 0.
C12_GetNameIsSemanticNonNullString ==
    (Resolved /\ UserRegistered) =>
        \A file \in SeqToSet(files_to_process) :
            \A i \in StatementsLike(file, GetNameOfUser) :
                GetNameYields(file.path, i, NamedTypeAnnotation("String", <<i, "ret">>), <<0>>)

\* getName was resolved in a file that registers User after it.
C12_Witness ==
    /\ Resolved
    /\ UserRegistered
    /\ \E file \in SeqToSet(files_to_process) :
         \E i \in StatementsLike(file, GetNameOfUser) :
             /\ FieldsAt(file.path, <<i, "ident">>) # {}
             /\ StatementsLike(file, StrongUser) = {i + 1}

\* The statements of a pending file whose docblock names the resolver with a
\* dotted name, and the segment of the name before the dot.
DottedStatements(file) ==
    {i \in 1..Len(file.body) :
        /\ file.body[i].k = "export_fn"
        /\ IsSome(file.body[i].comment)
        /\ IsSome(Unwrap(file.body[i].comment).field_value)
        /\ contains_dot(Unwrap(Unwrap(file.body[i].comment).field_value))}

DottedName(file, i) == Unwrap(Unwrap(file.body[i].comment).field_value)

EntitySegment(name) == IF name = "Client.greeting" THEN "Client" ELSE "client"

\* C13: a resolver with the dotted name Client.greeting (or client.greeting)
\* declares no type, and the field declaration it yields after resolve is
\* owned by the entity named by the segment before the dot.
C13_DottedNameOwnedBySegment ==
    Resolved =>
        \A file \in SeqToSet(files_to_process) :
            \A i \in DottedStatements(file) :
                /\ TypesAt(file.path, i) = {}
                /\ \A j \in FieldsAt(file.path, <<i, "comment", "RelayResolver">>) :
                     extractor.resolved_field_definitions[j].type_.item
                         = EntitySegment(DottedName(file, i))

\* export type Viewer = TUser, with the resolver marker
ViewerAlias == ExportTypeAlias(Marked, "Viewer", Ref("TUser"))

\* parse_document has returned for a file that parses.
Scanned ==
    last_call.op = "parse_document" /\ last_call.file.syntax_ok /\ last_call.result # Panic

\* The declaration of Viewer in the scanned file is in the table as an object
\* of the given kind, and no field is deferred for it.
ViewerDeclares(kind) ==
    \A i \in StatementsLike(last_call.file, ViewerAlias) :
        /\ \E key \in DOMAIN extractor.type_definitions :
             /\ extractor.type_definitions[key].kind = kind
             /\ extractor.type_definitions[key].type_name = "Viewer"
             /\ extractor.type_definitions[key].location.source = last_call.file.path
        /\ \A j \in 1..Len(extractor.unresolved_field_definitions) :
             extractor.unresolved_field_definitions[j][1].field_name.location
                 # Location(last_call.file.path, <<i, "alias">>)

\* C14 as stated: the resolver-marked alias Viewer of an imported type leaves
\* a strong-object type declaration in the type-definition table, and no
\* field declaration.
C14_AliasDeclaresStrongObject == Scanned => ViewerDeclares("StrongObjectResolver")

\* C14, amended: it leaves a weak-object type declaration, under the key of
\* the file stem and the declared name, never a strong object, and no field.
C14_AliasDeclaresWeakObject ==
    Scanned =>
        /\ ViewerDeclares("WeakObjectType")
        /\ \A i \in StatementsLike(last_call.file, ViewerAlias) :
             /\ ModuleResolutionKey(FileStem(last_call.file.path), Named("Viewer"))
                    \in DOMAIN extractor.type_definitions
             /\ \A key \in TypesAt(last_call.file.path, i) :
                  extractor.type_definitions[key].kind = "WeakObjectType"

\* The alias Viewer was scanned, in a file at a path with a directory and an
\* extension, and is in the table.
C14_Witness ==
    /\ Scanned
    /\ IsOk(last_call.result)
    /\ last_call.file.path = PathA
    /\ \E i \in StatementsLike(last_call.file, ViewerAlias) : TypesAt(PathA, i) # {}

\* ------------------------------------------------------------------------
\* Properties of the translation
\* ------------------------------------------------------------------------
\* The call has returned a type annotation; the annotation and its levels.
Translated == IsSome(translate_result) /\ IsOk(Unwrap(translate_result))

TranslatedType == Unwrap(translate_result).v.type

TranslatedLevels == Unwrap(translate_result).v.levels

\* The same call with the other tracking setting.
WithTracking(use_semantic_non_null) ==
    Translation(translate_args.custom_scalar_map, translate_args.return_type,
                use_semantic_non_null).v

\* The effective type of the annotation: the first alternative that is not
\* null or undefined.
EffectiveType == unwrap_nullable_type(translate_args.return_type, <<"ret">>, PathStem).v

IsRelayResolverValue(type_ann) ==
    type_ann.k = "ref" /\ Len(type_ann.params) = 1 /\ type_ann.name = "RelayResolverValue"

\* The annotation is optional: it has a null or undefined alternative, or its
\* effective type is RelayResolverValue<T>.
IsOptional == EffectiveType.is_optional \/ IsRelayResolverValue(EffectiveType.type)

\* C15: a translation that returns, of a non-optional annotation, is the bare
\* annotation with level 0 in the level list when tracking is requested, and
\* that same annotation inside a non-null wrapper with an empty level list
\* when it is not; of an optional annotation it is the bare annotation without
\* level 0, the same under both settings.  `number` without tracking is Float
\* inside a non-null wrapper; `number | null` is the bare Float with an empty
\* level list under either setting.
C15_NonNullWrapping ==
    Translated =>
        /\ (~IsOptional /\ translate_args.use_semantic_non_null) =>
             /\ TranslatedType.k # "NonNull"
             /\ TranslatedLevels # <<>>
             /\ TranslatedLevels[Len(TranslatedLevels)] = 0
             /\ WithTracking(FALSE).type
                    = NonNullTypeAnnotation(TranslatedType, EffectiveType.span)
        /\ (~IsOptional /\ ~translate_args.use_semantic_non_null) =>
             /\ TranslatedType.k = "NonNull"
             /\ TranslatedType.type_.k # "NonNull"
             /\ TranslatedType.type_ = WithTracking(TRUE).type
             /\ TranslatedLevels = <<>>
        /\ IsOptional =>
             /\ TranslatedType.k # "NonNull"
             /\ \A j \in 1..Len(TranslatedLevels) : TranslatedLevels[j] # 0
             /\ WithTracking(~translate_args.use_semantic_non_null)
                    = Unwrap(translate_result).v
        /\ (translate_args.return_type = Kw("number")
                /\ ~translate_args.use_semantic_non_null) =>
             /\ TranslatedType
                    = NonNullTypeAnnotation(NamedTypeAnnotation("Float", <<"ret">>), <<"ret">>)
             /\ TranslatedLevels = <<>>
        /\ translate_args.return_type = UnionType(<<Kw("number"), Kw("null")>>) =>
             /\ TranslatedType = NamedTypeAnnotation("Float", <<"ret", 1>>)
             /\ TranslatedLevels = <<>>

\* `number` was translated without tracking.
C15_Witness ==
    /\ Translated
    /\ translate_args.return_type = Kw("number")
    /\ ~translate_args.use_semantic_non_null
    /\ TranslatedType.k = "NonNull"

\* ReadOnlyArray<string> and Array<string>
StringArrays == {Generic(name, <<Kw("string")>>) : name \in {"Array", "ReadOnlyArray"}}

TrackedStringArray ==
    /\ Translated
    /\ translate_args.return_type \in StringArrays
    /\ translate_args.use_semantic_non_null

\* C16 as stated: ReadOnlyArray<string> translated with tracking is the list
\* of the bare String, with the level list [1].
C16_ArrayOfStringLevelOne ==
    TrackedStringArray =>
        /\ TranslatedType
               = ListTypeAnnotation(NamedTypeAnnotation("String", <<"ret", 1>>), <<"ret">>)
        /\ TranslatedLevels = <<1>>

\* C16, amended: it is the list, not wrapped, of String inside a non-null
\* wrapper, with the level list [0]: the element is translated without
\* tracking, the list itself with it.
C16_ArrayOfNonNullStringLevelZero ==
    TrackedStringArray =>
        /\ TranslatedType
               = ListTypeAnnotation(
                     NonNullTypeAnnotation(NamedTypeAnnotation("String", <<"ret", 1>>),
                                           <<"ret", 1>>),
                     <<"ret">>)
        /\ TranslatedLevels = <<0>>

\* ReadOnlyArray<string> was translated with tracking.
C16_Witness ==
    /\ TrackedStringArray
    /\ translate_args.return_type.name = "ReadOnlyArray"
    /\ TranslatedType.k = "List"

\* The element annotation of a translated list, with or without the non-null
\* wrapper of the list.
ListElement(type_annotation) ==
    IF type_annotation.k = "NonNull" THEN type_annotation.type_.type_
    ELSE type_annotation.type_

IsArray(type_ann) ==
    type_ann.k = "ref" /\ Len(type_ann.params) = 1 /\ type_ann.name \in {"Array", "ReadOnlyArray"}

\* C17: a translation that returns, of an annotation whose effective type is
\* RelayResolverValue<T>, is the named type RelayResolverValue without a
\* non-null wrapper and without level 0, under either tracking setting and
\* with or without a null or undefined alternative; and the element of a
\* translated Array or ReadOnlyArray whose element annotation is such a type
\* is the named type RelayResolverValue without a non-null wrapper.
C17_RelayResolverValueIsOptional ==
    Translated =>
        /\ IsRelayResolverValue(EffectiveType.type) =>
             /\ TranslatedType
                    = NamedTypeAnnotation("RelayResolverValue", EffectiveType.span)
             /\ \A j \in 1..Len(TranslatedLevels) : TranslatedLevels[j] # 0
        /\ (/\ IsArray(EffectiveType.type)
            /\ EffectiveType.type.params[1].k \in {"ref", "union"}
            /\ IsRelayResolverValue(
                   unwrap_nullable_type(EffectiveType.type.params[1],
                                        Append(EffectiveType.span, 1), PathStem).v.type)) =>
             /\ ListElement(TranslatedType).k = "Named"
             /\ ListElement(TranslatedType).name = "RelayResolverValue"
             /\ \A j \in 1..Len(TranslatedLevels) : TranslatedLevels[j] # 1

\* RelayResolverValue<string>, without a null alternative, was translated
\* without tracking.
C17_Witness ==
    /\ Translated
    /\ translate_args.return_type = Generic("RelayResolverValue", <<Kw("string")>>)
    /\ ~translate_args.use_semantic_non_null
    /\ TranslatedType.k = "Named"

\* export function viewer(): Weak, with the resolver marker
ViewerOfWeak == ExportFn(Marked, "viewer", <<>>, Some(Ref("Weak")))

\* The key the module index of a file records for its exported alias Weak.
ExportedWeakKey(file) == extract_module_resolution(file.body, file.path).exports["Weak"]

\* The resolved field has the bare named type Weak.
IsWeakField(ir) == ir.field.type_.k = "Named" /\ ir.field.type_.name = "Weak"

\* C20: after resolve, in every scanned file that declares the weak object
\* Weak with the resolver marker and a field returning Weak, the key of the
\* module index for the exported alias is a key of the type-definition table
\* and the field is resolved with the type Weak, whatever the path of the
\* file.
C20_SameFileWeakObjectResolves ==
    Resolved =>
        \A file \in SeqToSet(files_to_process) :
            StatementsLike(file, WeakAlias) # {} =>
                \A i \in StatementsLike(file, ViewerOfWeak) :
                    /\ ExportedWeakKey(file) \in DOMAIN extractor.type_definitions
                    /\ \E j \in FieldsAt(file.path, <<i, "ident">>) :
                         IsWeakField(extractor.resolved_field_definitions[j])


\* ------------------------------------------------------------------------
\* Properties of resolve
\* ------------------------------------------------------------------------
\* The module index of the file that declared a deferred entry.
IndexOf(self, entry) == self.module_resolutions[entry[2]]

\* The names the module index of a file knows, and the key it gives.
IndexNames(index) == DOMAIN index.imports \cup DOMAIN index.exports

IndexKey(index, name) ==
    IF name \in DOMAIN index.imports THEN index.imports[name] ELSE index.exports[name]

\* The entity name of a deferred field names an object of the table.
NamesObject(self, entry) ==
    LET name == Unwrap(entry[1].entity_name).item
        index == IndexOf(self, entry)
    IN  /\ name \in IndexNames(index)
        /\ IndexKey(index, name) \in DOMAIN self.type_definitions
        /\ self.type_definitions[IndexKey(index, name)].kind
               \in {"StrongObjectResolver", "WeakObjectType"}

\* The kind of owner of a deferred field.
OwnerCase(self, entry) ==
    IF IsSome(entry[1].entity_type) THEN "entity_type"
    ELSE IF IsSome(entry[1].entity_name)
    THEN IF NamesObject(self, entry) THEN "object" ELSE "unknown"
    ELSE "query"

\* C21: when resolve returns, every deferred entry of a scanned file whose
\* closure succeeds is resolved on the pre-set entity type when there is one,
\* else on the type name of the strong or weak object its entity name names
\* through the module index of its file, else (no entity) on Query; an entry
\* whose entity name names no object of the table fails with one diagnostic at
\* the entity name, which resolve returns, and no other entry gets a
\* diagnostic at its entity name.
C21_OwningTypeOrder ==
    Resolved =>
        LET self == last_call.before
            each == EntryResults(self)
        IN  \A j \in DOMAIN each :
                LET entry == self.unresolved_field_definitions[j]
                    field == entry[1]
                    case == OwnerCase(self, entry)
                IN  entry[2] \in DOMAIN self.module_resolutions =>
                    /\ case = "unknown" =>
                         /\ IsErr(each[j]) /\ IsErr(last_call.result)
                         /\ Len(each[j].errs) = 1
                         /\ each[j].errs[1].kind
                               \in {"ExpectedFlowDefinitionForType", "ModuleNotFound"}
                         /\ each[j].errs[1].location = Unwrap(field.entity_name).location
                         /\ each[j].errs[1] \in SeqToSet(last_call.result.errs)
                    /\ (case \in {"entity_type", "object"} /\ IsErr(each[j])) =>
                         \A d \in 1..Len(each[j].errs) :
                             each[j].errs[d].location # Unwrap(field.entity_name).location
                    /\ IsOk(each[j]) =>
                         /\ each[j].v \in SeqToSet(extractor.resolved_field_definitions)
                         /\ case = "entity_type" =>
                               each[j].v.type_ = Unwrap(field.entity_type)
                         /\ case = "object" =>
                               each[j].v.type_.item =
                                   self.type_definitions[
                                       IndexKey(IndexOf(self, entry),
                                                Unwrap(field.entity_name).item)].type_name
                         /\ case = "query" => each[j].v.type_.item = "Query"

\* The resolved owners of the deferred entries of the given kind.
OwnersOfCase(case) ==
    LET self == last_call.before
        each == EntryResults(self)
    IN  {each[j].v.type_.item :
            j \in {i \in DOMAIN each :
                      /\ IsOk(each[i])
                      /\ OwnerCase(self, self.unresolved_field_definitions[i]) = case}}

\* One resolve call settles a field on the type condition of a fragment, a
\* field on a strong object, a field on a weak object and a field on Query, and
\* reports the field on a type that no file registers.
C21_Witness ==
    /\ last_call.op = "resolve"
    /\ IsErr(last_call.result)
    /\ OwnersOfCase("entity_type") = {"User"}
    /\ OwnersOfCase("object") = {"User", "Weak"}
    /\ OwnersOfCase("query") = {"Query"}
    /\ \E j \in 1..Len(last_call.before.unresolved_field_definitions) :
         OwnerCase(last_call.before, last_call.before.unresolved_field_definitions[j])
             = "unknown"

\* ------------------------------------------------------------------------
\* Properties of the translation of a bare type reference
\* ------------------------------------------------------------------------
\* The call has returned, with a type annotation or with diagnostics.
Returned_translation == IsSome(translate_result) /\ Unwrap(translate_result) # Panic

\* The annotation is, after the nullability unwrap, an unqualified type
\* reference without type parameters.
IsBareReference ==
    /\ IsOk(unwrap_nullable_type(translate_args.return_type, <<"ret">>, PathStem))
    /\ EffectiveType.type.k = "ref"
    /\ ~EffectiveType.type.qualified
    /\ EffectiveType.type.params = <<>>

\* The module index and the type-definition table the translator is given.
TranslatorIndex == TranslatorFixture.module_resolutions[PathStem]

TranslatorTable == TranslatorFixture.type_definitions

\* The key of the custom-scalar map for an identifier.
ScalarKeyOf(name) ==
    IF name \in IndexNames(TranslatorIndex)
    THEN CustomTypePath(name, IndexKey(TranslatorIndex, name).module_name)
    ELSE CustomTypeName(name)

\* The name of a named annotation, inside a non-null wrapper or bare.
AnnotationName(type_annotation) ==
    IF type_annotation.k = "NonNull" THEN type_annotation.type_.name ELSE type_annotation.name

\* The kinds of the returned diagnostics.
DiagnosticKinds(result) == {result.errs[j].kind : j \in 1..Len(result.errs)}

\* C22: the translation of a bare type reference without type parameters is
\* the scalar the custom-scalar map gives for the key of the identifier (the
\* import path when the identifier is in the module index, the bare name
\* otherwise), whatever the table holds for it; without such a scalar it is the
\* name of the weak object the identifier's key names in the table, the
\* strong-type-not-allowed diagnostic for a strong object, and a diagnostic in
\* every other case.
C22_BareReference ==
    (Returned_translation /\ IsBareReference) =>
        LET name == EffectiveType.type.name
            scalars == translate_args.custom_scalar_map
            result == Unwrap(translate_result)
            in_index == name \in IndexNames(TranslatorIndex)
            key == IndexKey(TranslatorIndex, name)
            kind == IF in_index /\ key \in DOMAIN TranslatorTable
                    THEN TranslatorTable[key].kind ELSE "none"
        IN  IF ScalarKeyOf(name) \in DOMAIN scalars
            THEN IsOk(result) /\ AnnotationName(result.v.type) = scalars[ScalarKeyOf(name)]
            ELSE IF kind = "WeakObjectType"
            THEN IsOk(result) /\ AnnotationName(result.v.type) = TranslatorTable[key].type_name
            ELSE IF kind = "StrongObjectResolver"
            THEN IsErr(result) /\ DiagnosticKinds(result) = {"StrongReturnTypeNotAllowed"}
            ELSE /\ IsErr(result)
                 /\ DiagnosticKinds(result)
                        = {IF in_index THEN "ModuleNotFound"
                           ELSE "ExpectedFlowDefinitionForType"}

\* The imported TUser, which names the registered strong object User, was
\* translated to its custom scalar.
C22_Witness ==
    /\ Translated
    /\ translate_args.return_type = Ref("TUser")
    /\ TranslatorTable[IndexKey(TranslatorIndex, "TUser")].kind = "StrongObjectResolver"
    /\ CustomTypeName("Missing") \in DOMAIN translate_args.custom_scalar_map
    /\ AnnotationName(TranslatedType) = "UserScalar"

\* ------------------------------------------------------------------------
\* Properties of unwrap_nullable_type
\* ------------------------------------------------------------------------
\* The annotation given to unwrap_nullable_type and what the call made of it.
UnwrapArg == Unwrap(unwrap_args)

Unwrapped == Unwrap(unwrap_result)

\* The members of a union that are neither null nor undefined, by position.
Remaining(types) ==
    {i \in 1..Len(types) : types[i] \notin {Kw("null"), Kw("undefined")}}

\* C23: a union with exactly one member that is neither null nor undefined
\* yields that member, optional exactly when the union has a null or undefined
\* member; an intersection yields the unsupported-type diagnostic; any other
\* annotation is returned unchanged and not optional.
C23_NullabilityUnwrap ==
    IsSome(unwrap_result) =>
        /\ (UnwrapArg.k = "union" /\ Cardinality(Remaining(UnwrapArg.types)) = 1) =>
             /\ IsOk(Unwrapped)
             /\ \A i \in Remaining(UnwrapArg.types) : Unwrapped.v.type = UnwrapArg.types[i]
             /\ Unwrapped.v.is_optional
                    <=> Remaining(UnwrapArg.types) # 1..Len(UnwrapArg.types)
        /\ UnwrapArg.k = "intersection" =>
             /\ IsErr(Unwrapped)
             /\ Len(Unwrapped.errs) = 1
             /\ Unwrapped.errs[1].kind = "UnsupportedType"
        /\ UnwrapArg.k \notin {"union", "intersection"} =>
             /\ IsOk(Unwrapped)
             /\ Unwrapped.v.type = UnwrapArg
             /\ ~Unwrapped.v.is_optional

\* `null | string | undefined` was unwrapped to the optional `string`.
C23_Witness ==
    /\ unwrap_args = Some(UnionType(<<Kw("null"), Kw("string"), Kw("undefined")>>))
    /\ unwrap_result = Some(Ok([type |-> Kw("string"), span |-> <<"ret", 2>>,
                                is_optional |-> TRUE]))

\* C30: on a union whose members are all null or undefined the call aborts;
\* on a union with two or more members that are neither, it returns the first
\* of them, optional exactly when the union has a null or undefined member,
\* and no diagnostic.
C30_UnionsWithoutOneRemainingMember ==
    (IsSome(unwrap_result) /\ UnwrapArg.k = "union") =>
        /\ Remaining(UnwrapArg.types) = {} => Unwrapped = Panic
        /\ Cardinality(Remaining(UnwrapArg.types)) >= 2 =>
             /\ IsOk(Unwrapped)
             /\ \E i \in Remaining(UnwrapArg.types) :
                  /\ \A j \in Remaining(UnwrapArg.types) : i <= j
                  /\ Unwrapped.v.type = UnwrapArg.types[i]
             /\ Unwrapped.v.is_optional
                    <=> Remaining(UnwrapArg.types) # 1..Len(UnwrapArg.types)

\* The call on `null | undefined` aborted.
C30_Witness ==
    /\ unwrap_args = Some(UnionType(<<Kw("null"), Kw("undefined")>>))
    /\ unwrap_result = Some(Panic)

\* ------------------------------------------------------------------------
\* Properties of the translation of lists
\* ------------------------------------------------------------------------
\* The annotation is, after the nullability unwrap, Array<T> or
\* ReadOnlyArray<T>.
IsArrayAnnotation ==
    /\ IsOk(unwrap_nullable_type(translate_args.return_type, <<"ret">>, PathStem))
    /\ IsArray(EffectiveType.type)

\* The translation of the element type T on its own, without tracking.
ElementTranslation ==
    return_type_to_type_annotation(
        translate_args.custom_scalar_map, EffectiveType.type.params[1],
        Append(EffectiveType.span, 1), TranslatorIndex, TranslatorTable, FALSE, PathStem)

\* C24: the translation of Array<T> or ReadOnlyArray<T> fails as the
\* translation of T without tracking fails; otherwise it is the list of the
\* annotation that translation returns, with the levels it returns increased
\* by 1, and for a list that is not optional level 0 is added when tracking is
\* requested and the list is put inside a non-null wrapper (with no levels)
\* when it is not.
C24_ListTranslation ==
    (IsSome(translate_result) /\ IsArrayAnnotation) =>
        LET element == ElementTranslation
            result == Unwrap(translate_result)
        IN  IF ~IsOk(element) THEN result = element
            ELSE LET list == ListTypeAnnotation(element.v.type, EffectiveType.span)
                     shifted == [i \in 1..Len(element.v.levels) |-> element.v.levels[i] + 1]
                 IN  /\ IsOk(result)
                     /\ (~EffectiveType.is_optional /\ translate_args.use_semantic_non_null) =>
                          /\ result.v.type = list
                          /\ result.v.levels = Append(shifted, 0)
                     /\ (~EffectiveType.is_optional /\ ~translate_args.use_semantic_non_null) =>
                          /\ result.v.type = NonNullTypeAnnotation(list, EffectiveType.span)
                          /\ result.v.levels = <<>>
                     /\ EffectiveType.is_optional =>
                          /\ result.v.type = list
                          /\ result.v.levels = shifted

\* ReadOnlyArray<Array<string>> was translated with tracking: a list of
\* non-null lists of non-null strings, with level 0 alone.
C24_Witness ==
    /\ Translated
    /\ translate_args.use_semantic_non_null
    /\ translate_args.return_type = Generic("ReadOnlyArray", <<Generic("Array", <<Kw("string")>>)>>)
    /\ TranslatedType.k = "List"
    /\ TranslatedType.type_.k = "NonNull"
    /\ TranslatedType.type_.type_.k = "List"
    /\ TranslatedType.type_.type_.type_.k = "NonNull"
    /\ TranslatedLevels = <<0>>

\* The nesting of Array / ReadOnlyArray in an annotation, through null and
\* undefined alternatives.
RECURSIVE ArrayDepth(_)
ArrayDepth(type_ann) ==
    IF type_ann.k = "union"
    THEN IF Remaining(type_ann.types) = {} THEN 0
         ELSE ArrayDepth(type_ann.types[CHOOSE i \in Remaining(type_ann.types) :
                                           \A j \in Remaining(type_ann.types) : i <= j])
    ELSE IF IsArray(type_ann) THEN 1 + ArrayDepth(type_ann.params[1])
    ELSE 0

\* C27: the level list of every translation that returns is empty or <<0>>,
\* whatever the annotation, the tracking and the nesting of lists.
C27_LevelsEmptyOrZero ==
    Translated => TranslatedLevels \in {<<>>, <<0>>}

\* A list nested as deep as the inputs go was translated with tracking and
\* has level 0 alone.
C27_Witness ==
    /\ Translated
    /\ translate_args.use_semantic_non_null
    /\ ArrayDepth(translate_args.return_type) = MaxDepth
    /\ TranslatedLevels = <<0>>

\* ------------------------------------------------------------------------
\* Properties of ts_type_to_field_arguments
\* ------------------------------------------------------------------------
\* The annotation given to ts_type_to_field_arguments, and what it returned.
ArgsType == Unwrap(arguments_args)

ArgsResult == Unwrap(arguments_result)

\* The members of the literal that are properties, and those of them with an
\* identifier key and a type annotation.
Properties == {i \in 1..Len(ArgsType.members) : ArgsType.members[i].property}

WellFormed ==
    {i \in Properties :
        ArgsType.members[i].key_is_ident /\ IsSome(ArgsType.members[i].type_ann)}

\* The translation of the type of a well-formed property on its own, without
\* tracking.
ArgumentTranslation(i) ==
    return_type_to_type_annotation(
        NoCustomScalars.v, Unwrap(ArgsType.members[i].type_ann), <<"args", i, "type">>,
        TranslatorIndex, TranslatorTable, FALSE, PathStem)

\* The type of a well-formed property has a null or undefined alternative.
ArgumentIsOptional(i) ==
    unwrap_nullable_type(Unwrap(ArgsType.members[i].type_ann), <<>>, PathStem).v.is_optional

\* The list has one definition for each of the given properties, in source
\* order, with the type translated without tracking: inside a non-null wrapper
\* exactly when the type is not optional.
EmitsOnePer(positions) ==
    /\ IsOk(ArgsResult)
    /\ DOMAIN ArgsResult.v = {"items", "span"}
    /\ Len(ArgsResult.v.items) = Cardinality(positions)
    /\ \A i \in positions :
         LET item == ArgsResult.v.items[Cardinality({j \in positions : j <= i})]
         IN  /\ item.name = ArgsType.members[i].name
             /\ item.span = <<"args", i>>
             /\ item.type_ = ArgumentTranslation(i).v.type
             /\ DOMAIN item = {"name", "name_span", "type_", "span"}
             /\ (item.type_.k = "NonNull") <=> ~ArgumentIsOptional(i)

\* An annotation that is not an inline literal type is rejected.
OtherShapeRejected ==
    ArgsType.k # "typelit" =>
        /\ IsErr(ArgsResult)
        /\ DiagnosticKinds(ArgsResult) = {"IncorrectArgumentsDefinition"}
        /\ ArgsResult.errs[1].location = Location(PathStem, <<"args">>)

\* C25 as stated: an annotation that is not an inline literal type yields the
\* incorrect-arguments-definition diagnostic; a literal yields one input-value
\* definition per property that has an identifier key and a type annotation
\* (whose type translates), in source order, translated without tracking.
C25_OnePerWellFormedProperty ==
    IsSome(arguments_result) =>
        /\ OtherShapeRejected
        /\ (/\ ArgsType.k = "typelit"
            /\ \A i \in WellFormed : IsOk(ArgumentTranslation(i))) =>
               EmitsOnePer(WellFormed)

\* C25, amended: an annotation that is not an inline literal type yields the
\* incorrect-arguments-definition diagnostic; a literal whose properties all
\* have an identifier key and a type annotation that translates yields one
\* input-value definition per property, in source order, translated without
\* tracking (members that are not properties are skipped); any other literal
\* yields no list but the diagnostic of its first property that has no
\* identifier key or no type annotation (incorrect arguments definition) or
\* whose type does not translate.
C25_OnePerPropertyOrDiagnostic ==
    IsSome(arguments_result) =>
        /\ OtherShapeRejected
        /\ ArgsType.k = "typelit" =>
             LET failing == {i \in Properties :
                                i \notin WellFormed \/ ~IsOk(ArgumentTranslation(i))}
             IN  IF failing = {} THEN EmitsOnePer(Properties)
                 ELSE LET first == CHOOSE i \in failing : \A j \in failing : i <= j
                      IN  IF first \in WellFormed
                          THEN ArgsResult = ArgumentTranslation(first)
                          ELSE /\ IsErr(ArgsResult)
                               /\ DiagnosticKinds(ArgsResult)
                                      = {"IncorrectArgumentsDefinition"}
                               /\ ArgsResult.errs[1].location.span
                                      = IF ArgsType.members[first].key_is_ident
                                        THEN <<"args", first>>
                                        ELSE <<"args", first, "key">>

\* The literal { first: number, method(), after: string | null } yields the
\* arguments first: Float! and after: String.
C25_Witness ==
    /\ IsSome(arguments_result)
    /\ ArgsType.k = "typelit"
    /\ Len(ArgsType.members) = 3
    /\ Properties = {1, 3}
    /\ IsOk(ArgsResult)
    /\ Len(ArgsResult.v.items) = 2
    /\ ArgsResult.v.items[1].name = "first"
    /\ ArgsResult.v.items[1].type_.k = "NonNull"
    /\ ArgsResult.v.items[1].type_.type_.name = "Float"
    /\ ArgsResult.v.items[2].name = "after"
    /\ ArgsResult.v.items[2].type_.k = "Named"
    /\ ArgsResult.v.items[2].type_.name = "String"

\* ------------------------------------------------------------------------
\* Properties of the locations resolve attaches
\* ------------------------------------------------------------------------
\* The files the locations of the diagnostics of a result name.
DiagnosticSources(result) ==
    IF IsErr(result) THEN {result.errs[d].location.source : d \in 1..Len(result.errs)}
    ELSE {}

\* C26: when resolve returns after the scan of the pending files, the
\* diagnostics raised for a deferred field name the file that declared the
\* field, whatever file was scanned last.
C26_DiagnosticsNameDeclaringFile ==
    Resolved =>
        LET self == last_call.before
            each == EntryResults(self)
        IN  \A j \in DOMAIN each :
                DiagnosticSources(each[j]) \subseteq {self.unresolved_field_definitions[j][2]}

\* ------------------------------------------------------------------------
\* Properties of the scan of a type alias
\* ------------------------------------------------------------------------
\* The statements of a file that are exported type aliases with the marker.
AliasStatements(file) ==
    {i \in 1..Len(file.body) : file.body[i].k = "export_alias" /\ file.body[i].comment = Marked}

\* The diagnostics of field synthesis for a weak object.
SynthesisDiagnostics == {"ExpectedWeakObjectToHaveFields", "ExpectedTypeAliasToBeObject"}

\* C28: in a parse_document call, a marked exported type alias scanned on
\* its own defers no field and either adds one key to the type-definition table
\* or reports a duplicate definition, whatever its right-hand side; the call
\* defers at most one field per exported function and never returns a
\* diagnostic of field synthesis.
C28_AliasDefersNoField ==
    (last_call.op = "parse_document" /\ last_call.file.syntax_ok
        /\ last_call.result # Panic) =>
        LET file == last_call.file
            before == last_call.before
        IN  /\ \A i \in AliasStatements(file) :
                 /\ ScannedAlone(i).ext.unresolved_field_definitions
                        = before.unresolved_field_definitions
                 /\ IF IsOk(ScannedAlone(i).result)
                    THEN Cardinality(KeysBy(i)) = 1
                    ELSE /\ KeysBy(i) = {}
                         /\ IsErr(ScannedAlone(i).result)
                         /\ DiagnosticKinds(ScannedAlone(i).result)
                                = {"DuplicateTypeDefinitions"}
            /\ Len(extractor.unresolved_field_definitions)
                   - Len(before.unresolved_field_definitions)
                   <= Cardinality({i \in 1..Len(file.body) : file.body[i].k = "export_fn"})
            /\ IsErr(last_call.result) =>
                   DiagnosticKinds(last_call.result) \cap SynthesisDiagnostics = {}

\* A file with an alias of an empty literal and an alias of a type reference
\* was scanned: two keys more in the table, no deferred field, no diagnostic.
C28_Witness ==
    /\ last_call.op = "parse_document"
    /\ IsOk(last_call.result)
    /\ \E i, j \in AliasStatements(last_call.file) :
         /\ last_call.file.body[i].type_ann = TypeLit(<<>>)
         /\ last_call.file.body[j].type_ann.k = "ref"
    /\ Cardinality(DOMAIN extractor.type_definitions
                       \ DOMAIN last_call.before.type_definitions) = 2
    /\ extractor.unresolved_field_definitions = <<>>

\* ------------------------------------------------------------------------
\* Properties of resolve without a parsed module
\* ------------------------------------------------------------------------
\* The pending files that the parser accepts.
ParsedFiles == {k \in 1..Len(files_to_process) : files_to_process[k].syntax_ok}

\* C29: a resolve call on an extractor on which no parse_document call got
\* past the parser (no pending file, or a syntax error in each) aborts,
\* although there is nothing to resolve; after a file that the parser accepts,
\* a resolve call with nothing to resolve returns.
C29_ResolveWithoutParsedModule ==
    last_call.op = "resolve" =>
        /\ ParsedFiles = {} =>
             /\ last_call.before.location_handler = None
             /\ last_call.before.unresolved_field_definitions = <<>>
             /\ last_call.result = Panic
             /\ cer_pc = "panicked"
        /\ (ParsedFiles # {} /\ last_call.before.unresolved_field_definitions = <<>>) =>
             /\ IsOk(last_call.result)
             /\ last_call.result.v.fields = <<>>

\* The only pending file has a syntax error: parse_document reported it and
\* the resolve call that followed aborted.
C29_Witness ==
    /\ last_call.op = "resolve"
    /\ last_call.result = Panic
    /\ Len(files_to_process) = 1
    /\ ~files_to_process[1].syntax_ok
    /\ Len(errors) = 1
    /\ errors[1].kind = "SyntaxError"

====
